---- MODULE Spec2Model ----
(***************************************************************************)
(* Model of the Telegram calendar bot: the pending-confirmation store      *)
(* (pendingEvents), the add-event flow and the confirm / cancel callback   *)
(* handlers.  JavaScript runs one handler segment at a time; every `await` *)
(* of a collaborator call is a suspension point, so each action below is   *)
(* the code between two awaits of one handler activation (a "task").       *)
(***************************************************************************)
EXTENDS Integers, Sequences, FiniteSets, Bags, TLC

\* ---------------------------------------------------------------- bounds
MaxTasks == 3      \* inbound events (handler activations) in one behaviour
MaxShown == 2      \* confirmation messages sent in one behaviour
MaxEvents == 3     \* events in one list handed to groupEventsByDate

\* ------------------------------------------------------------ the domain
Users == {1, 2}                 \* msg.from.id / query.from.id
Chat == 100                     \* msg.chat.id of the chat the bot is used in
TIMEZONE == "America/Los_Angeles"
NoEntry == [undefined |-> TRUE]  \* Map.get on a missing key
NoDraft == [undefined |-> TRUE]  \* no eventDetails (yet)

\* Field values.  A string is absent (or empty, both falsy) as ""; a date
\* "YYYY-MM-DD" is a day number, 0 when absent; a wall-clock time "HH:MM" is
\* <<h, m>>, <<>> when absent; ambiguities is a list that may be absent.
NoDate == 0
NoTime == <<>>
NoList == [present |-> FALSE, items |-> <<>>]
NoInput == [undefined |-> TRUE]   \* no function is called on its own
NoOutput == [undefined |-> TRUE]  \* the call has not returned
List(items) == [present |-> TRUE, items |-> items]

\* What the AI collaborator hands back to parseEventDetails (generateJSON).
RawA == [summary |-> "A", description |-> "about A", date |-> 11,
         startTime |-> <<14, 0>>, endTime |-> <<15, 0>>,
         confidence |-> "high", ambiguities |-> List(<<>>)]
RawB == [summary |-> "B", description |-> "", date |-> 12,
         startTime |-> <<9, 0>>, endTime |-> <<9, 30>>,
         confidence |-> "medium", ambiguities |-> NoList]
RawPast == [summary |-> "P", description |-> "old", date |-> 1,
            startTime |-> <<9, 0>>, endTime |-> <<10, 0>>,
            confidence |-> "high", ambiguities |-> List(<<>>)]
RawEndEqStart == [RawA EXCEPT !.endTime = <<14, 0>>]
RawNoSummary == [RawA EXCEPT !.summary = ""]
\* two-digit fields that are no clock time: "25:00" to "10:00"
RawBadClock == [RawA EXCEPT !.startTime = <<25, 0>>, !.endTime = <<10, 0>>]
AIFail == [error |-> "Failed to parse JSON response"]   \* generateJSON rejected
RawResults == {RawA, RawB, RawPast, RawEndEqStart, RawNoSummary}
AIOutcomes == RawResults \cup {AIFail}

VARIABLES
    ALLOWED_USER_ID,  \* 0 when TELEGRAM_ALLOWED_USER_ID is not set (NaN)
    now,              \* the process clock: [day, min] and its zone, utc hours ahead of UTC
    gemini,           \* what generateJSON can settle with in this behaviour
    pendingEvents,    \* the Map: a function whose DOMAIN is the keys present
    tasks,            \* the handler activations in flight (a bag)
    arrived,          \* number of inbound events so far
    shown,            \* confirmation messages sent; message_id = index
    rendered,         \* messages rendered to users so far
    calls,            \* invocations of createCalendarEvent so far
    calendar,         \* events inserted into the Google calendar so far
    input,            \* the arguments of a function called on its own
    output            \* what that call returned or threw

vars == <<ALLOWED_USER_ID, now, gemini, pendingEvents, tasks, arrived, shown, rendered, calls, calendar, input, output>>

\* ------------------------------------------------------- pure functions
IsError(r) == "error" \in DOMAIN r
Throw(message) == [error |-> message]

\* /^\d{2}:\d{2}$/ : a time is <<h, m>> when it has this form, a text such as
\* "3pm" is a sequence of another length
IsClockForm(t) == Len(t) = 2
\* new Date('2000-01-01T' + "HH:MM" + ':00') as minutes; -1 stands for Invalid Date
TimeValue(t) ==
    IF ~IsClockForm(t) THEN -1
    ELSE IF t[1] <= 23 /\ t[2] <= 59 THEN t[1] * 60 + t[2]
    ELSE IF t[1] = 24 /\ t[2] = 0 THEN 24 * 60
    ELSE -1

\* the note parseEventDetails pushes onto result.ambiguities
PastNote == "Event date appears to be in the past"

\* parseEventDetails after generateJSON settled with `result`: the
\* required-field check, the past-date override and the end-after-start
\* check; every throw is wrapped by the catch at the end.
parseEventDetailsKeepsConfidence(result, clock) ==
    IF IsError(result) THEN Throw("Failed to parse event details")
    ELSE IF result.summary = "" \/ result.date = NoDate
            \/ result.startTime = NoTime \/ result.endTime = NoTime
      THEN Throw("Failed to parse event details")
    ELSE
      LET s == TimeValue(result.startTime)
          e == TimeValue(result.endTime)
          inPast == s >= 0 /\ (result.date * 1440 + s < clock.day * 1440 + clock.min)
          r == IF inPast
                 THEN [result EXCEPT
                         !.ambiguities = List(Append(@.items, PastNote)),
                         !.confidence = IF @ = "high" THEN "high" ELSE "low"]
                 ELSE result
      IN IF s >= 0 /\ e >= 0 /\ e <= s
           THEN Throw("Failed to parse event details")
           ELSE r
parseEventDetails(result, clock) ==
    IF IsError(result) THEN Throw("Failed to parse event details")
    ELSE IF result.summary = "" \/ result.date = NoDate
            \/ result.startTime = NoTime \/ result.endTime = NoTime
      THEN Throw("Failed to parse event details")
    ELSE
      LET s == TimeValue(result.startTime)
          e == TimeValue(result.endTime)
          inPast == s >= 0 /\ (result.date * 1440 + s < clock.day * 1440 + clock.min)
          r == IF inPast
                 THEN [result EXCEPT
                         !.ambiguities = List(Append(@.items, PastNote)),
                         !.confidence = "low"]
                 ELSE result
      IN IF s >= 0 /\ e >= 0 /\ e <= s
           THEN Throw("Failed to parse event details")
           ELSE r

\* /^\d{4}-\d{2}-\d{2}$/ : a date of this form is a day number above 0, any
\* other text ("next friday") a negative number
IsDateForm(date) == date > 0
\* summaries for which summary.trim().length === 0
Blank == {" ", "  \t"}
\* Math.floor((today - eventDate) / 86400000): today is midnight of the
\* process's zone, new Date("YYYY-MM-DD") is midnight UTC
daysInPast(date, clock) == ((clock.day - date) * 86400 - clock.utc * 3600) \div 86400

\* validateEventData: the list of problems of a draft
validateEventData(d, clock) ==
    LET s == TimeValue(d.startTime)
        e == TimeValue(d.endTime)
    IN  (IF d.summary = "" \/ d.summary \in Blank
           THEN <<"Event must have a title">> ELSE <<>>)
     \o (IF d.date = NoDate THEN <<"Event must have a date">> ELSE <<>>)
     \o (IF d.startTime = NoTime \/ d.endTime = NoTime
           THEN <<"Event must have start and end times">> ELSE <<>>)
     \o (IF d.date # NoDate /\ ~IsDateForm(d.date)
           THEN <<"Date must be in YYYY-MM-DD format">> ELSE <<>>)
     \o (IF d.startTime # NoTime /\ ~IsClockForm(d.startTime)
           THEN <<"Start time must be in HH:MM format">> ELSE <<>>)
     \o (IF d.endTime # NoTime /\ ~IsClockForm(d.endTime)
           THEN <<"End time must be in HH:MM format">> ELSE <<>>)
     \o (IF d.startTime # NoTime /\ d.endTime # NoTime /\ s >= 0 /\ e >= 0 /\ e <= s
           THEN <<"Event end time must be after start time">> ELSE <<>>)
     \o (IF d.date # NoDate /\ IsDateForm(d.date) /\ daysInPast(d.date, clock) > 1
           THEN <<"Event date is more than 1 day in the past">> ELSE <<>>)

\* the resource createCalendarEvent sends to calendar.events.insert
CalendarResource(d, timezone) ==
    [summary |-> d.summary,
     description |-> IF d.description = "" THEN d.summary ELSE d.description,
     date |-> d.date, startTime |-> d.startTime, endTime |-> d.endTime,
     timeZone |-> timezone]

\* isAuthorized(userId)
isAuthorizedAnyone(userId) == TRUE
isAuthorized(userId) == IF ALLOWED_USER_ID = 0 THEN TRUE ELSE userId = ALLOWED_USER_ID

\* ------------------------------------------------------------- the store
\* pendingEvents.get(key)
MapGetAny(m, key) ==
    IF key \in DOMAIN m THEN m[key]
    ELSE IF DOMAIN m = {} THEN NoEntry
    ELSE m[CHOOSE k \in DOMAIN m : TRUE]
MapGet(m, key) == IF key \in DOMAIN m THEN m[key] ELSE NoEntry
\* pendingEvents.set(key, value)
MapSetIfAbsent(m, key, value) ==
    IF key \in DOMAIN m THEN m
    ELSE [k \in DOMAIN m \cup {key} |-> IF k = key THEN value ELSE m[k]]
MapSet(m, key, value) == [k \in DOMAIN m \cup {key} |-> IF k = key THEN value ELSE m[k]]
\* pendingEvents.delete(key)
MapClear(m, key) == <<>>
MapDelete(m, key) == [k \in DOMAIN m \ {key} |-> m[k]]

\* the key handleAddEvent stores under: msg.from.id
AddKey(from, chat) == from

\* `if (!pending)` of handleEventConfirm, `if (pending)` of handleEventCancel
HasPending(pending) == pending # NoEntry

\* the dispatch of bot.on('callback_query') on query.data
DispatchSwapped(data) ==
    IF data = "confirm_" THEN "cancel" ELSE IF data = "cancel_" THEN "confirm" ELSE "none"
Dispatch(data) ==
    IF data = "confirm_" THEN "confirm" ELSE IF data = "cancel_" THEN "cancel" ELSE "none"

\* ------------------------------------------------------------------ Init
\* TELEGRAM_ALLOWED_USER_ID is not set: every user is authorised.
Init ==
    /\ ALLOWED_USER_ID = 0
    /\ now = [day |-> 10, min |-> 540, utc |-> 0]
    /\ gemini = AIOutcomes
    /\ pendingEvents = <<>>
    /\ tasks = EmptyBag
    /\ arrived = 0
    /\ shown = <<>>
    /\ rendered = {}
    /\ calls = <<>>
    /\ calendar = <<>>
    /\ input = NoInput
    /\ output = NoOutput

\* ------------------------------------------------------------- task steps
\* A task is one activation of a handler, from the inbound event to the
\* return (or rejection) of the handler; it leaves `tasks` when it ends.
\* `signal` is what arrived, `handler` the function it was routed to, `pc`
\* the collaborator call it is awaiting, `pending` / `eventDetails` / `event`
\* / `error` its local variables.  `hadEntry` is history: whether the store held an
\* entry for the user when the handler read it; so is `late`: whether an add
\* flow of the same user was in flight when this add flow started (recorded
\* by SpecOverlap only).  `message` is query.message.message_id, the
\* confirmation message whose button was pressed (0 when not recorded).  (`await log(...)` only
\* appends to a log file and never rejects; it is folded into the segment
\* that follows it.)
NoEvent == [undefined |-> TRUE]

NewTask(signal, handler, user, pc) ==
    [signal |-> signal, handler |-> handler, user |-> user, pc |-> pc,
     hadEntry |-> FALSE, pending |-> NoEntry, eventDetails |-> NoDraft,
     event |-> NoEvent, error |-> "", late |-> FALSE, message |-> 0]

Running == BagToSet(tasks)
At(r, handler, pc) == r \in Running /\ r.handler = handler /\ r.pc = pc

Start(r) == tasks' = tasks (+) SetToBag({r}) /\ arrived' = arrived + 1
Step(r, r2) == tasks' = (tasks (-) SetToBag({r})) (+) SetToBag({r2})
Goto(r, pc) == Step(r, [r EXCEPT !.pc = pc])
Catch(r, error, pc) == Step(r, [r EXCEPT !.pc = pc, !.error = error])
End(r) == tasks' = tasks (-) SetToBag({r})     \* the handler returned
Reject(r) == tasks' = tasks (-) SetToBag({r})  \* the handler's promise rejected

\* a message of task r reaches the user
Message(r, text) ==
    [signal |-> r.signal, user |-> r.user, hadEntry |-> r.hadEntry,
     messageId |-> IF r.pending = NoEntry THEN 0 ELSE r.pending.messageId,
     text |-> text]
Render(r, text) == rendered' = rendered \cup {Message(r, text)}

Outcomes == {"ok", "fail"}     \* a collaborator call resolves or rejects

AddFlows == {r \in Running : r.handler = "handleAddEvent"}
InFlightCount(S) == LET n[T \in SUBSET S] ==
                          IF T = {} THEN 0
                          ELSE LET r == CHOOSE x \in T : TRUE
                               IN CopiesIn(r, tasks) + n[T \ {r}]
                    IN n[S]

\* ------------------------------------------------- bot.on('message', ...)
\* A free-text message that isQueryIntent does not classify as a query.
Message_AddEvent(u) ==
    /\ arrived < MaxTasks
    /\ Len(shown) + InFlightCount(AddFlows) < MaxShown
    /\ isAuthorized(u)
    /\ Start(NewTask("text", "handleAddEvent", u, "typing"))
    /\ UNCHANGED <<input, output, ALLOWED_USER_ID, now, gemini, pendingEvents, shown, rendered, calls, calendar>>

\* The same arrival, with the history of the start order: `late` records that
\* an add flow of the same user was in flight when this one started.
Message_AddEventLate(u) ==
    /\ arrived < MaxTasks
    /\ Len(shown) + InFlightCount(AddFlows) < MaxShown
    /\ isAuthorized(u)
    /\ Start([NewTask("text", "handleAddEvent", u, "typing") EXCEPT
                  !.late = \E x \in AddFlows : x.user = u])
    /\ UNCHANGED <<input, output, ALLOWED_USER_ID, now, gemini, pendingEvents, shown, rendered, calls, calendar>>

\* A message of a user who is not authorised.
Message_Unauthorized(u) ==
    /\ arrived < MaxTasks
    /\ ~isAuthorized(u)
    /\ Start(NewTask("text", "message", u, "privateSend"))
    /\ UNCHANGED <<input, output, ALLOWED_USER_ID, now, gemini, pendingEvents, shown, rendered, calls, calendar>>

Message_PrivateSent(r, o) ==
    /\ At(r, "message", "privateSend")
    /\ IF o = "ok" THEN Render(r, "private use only") /\ End(r)
                   ELSE UNCHANGED rendered /\ Reject(r)
    /\ UNCHANGED <<input, output, ALLOWED_USER_ID, now, gemini, arrived, pendingEvents, shown, calls, calendar>>

\* ------------------------------------------------------- handleAddEvent
\* await bot.sendChatAction settled
handleAddEvent_Typing(r, o) ==
    /\ At(r, "handleAddEvent", "typing")
    /\ Goto(r, IF o = "ok" THEN "parse" ELSE "clarifySend")
    /\ UNCHANGED <<input, output, ALLOWED_USER_ID, now, gemini, arrived, pendingEvents, shown, rendered, calls, calendar>>

\* await parseEventDetails settled; on success the confirmation is sent
handleAddEvent_ParsedStores(r, raw) ==
    /\ At(r, "handleAddEvent", "parse")
    /\ LET d == parseEventDetails(raw, now)
       IN IF IsError(d)
            THEN Goto(r, "clarifySend") /\ UNCHANGED pendingEvents
            ELSE /\ Step(r, [r EXCEPT !.pc = "confirmSend", !.eventDetails = d])
                 /\ pendingEvents' = MapSet(pendingEvents, AddKey(r.user, Chat),
                                       [eventDetails |-> d,
                                        messageId |-> Len(shown) + 1,
                                        chatId |-> Chat])
    /\ UNCHANGED <<input, output, ALLOWED_USER_ID, now, gemini, arrived, shown, rendered, calls, calendar>>
handleAddEvent_Parsed(r, raw) ==
    /\ At(r, "handleAddEvent", "parse")
    /\ LET d == parseEventDetails(raw, now)
       IN IF IsError(d)
            THEN Goto(r, "clarifySend")
            ELSE Step(r, [r EXCEPT !.pc = "confirmSend", !.eventDetails = d])
    /\ UNCHANGED <<input, output, ALLOWED_USER_ID, now, gemini, arrived, pendingEvents, shown, rendered, calls, calendar>>

\* await bot.sendMessage(confirmMsg, buttons) settled; then pendingEvents.set
handleAddEvent_ShownStoreFirst(r, o) ==
    /\ At(r, "handleAddEvent", "confirmSend")
    /\ pendingEvents' = MapSet(pendingEvents, AddKey(r.user, Chat),
                          [eventDetails |-> r.eventDetails,
                           messageId |-> Len(shown) + 1,
                           chatId |-> Chat])
    /\ IF o = "ok"
         THEN /\ shown' = Append(shown, [user |-> r.user, eventDetails |-> r.eventDetails,
                                       late |-> r.late])
              /\ rendered' = rendered \cup
                    {[Message(r, "confirmation") EXCEPT !.messageId = Len(shown) + 1]}
              /\ End(r)
         ELSE /\ Goto(r, "clarifySend")
              /\ UNCHANGED <<shown, rendered>>
    /\ UNCHANGED <<input, output, ALLOWED_USER_ID, now, gemini, arrived, calls, calendar>>
handleAddEvent_Shown(r, o) ==
    /\ At(r, "handleAddEvent", "confirmSend")
    /\ IF o = "ok"
         THEN /\ shown' = Append(shown, [user |-> r.user, eventDetails |-> r.eventDetails,
                                       late |-> r.late])
              /\ pendingEvents' = MapSet(pendingEvents, AddKey(r.user, Chat),
                                    [eventDetails |-> r.eventDetails,
                                     messageId |-> Len(shown) + 1,
                                     chatId |-> Chat])
              /\ rendered' = rendered \cup
                    {[Message(r, "confirmation") EXCEPT !.messageId = Len(shown) + 1]}
              /\ End(r)
         ELSE /\ Goto(r, "clarifySend")
              /\ UNCHANGED <<shown, pendingEvents, rendered>>
    /\ UNCHANGED <<input, output, ALLOWED_USER_ID, now, gemini, arrived, calls, calendar>>

\* catch: await bot.sendMessage('Sorry, I had trouble understanding ...')
handleAddEvent_ClarifiedDiscards(r, o) ==
    /\ At(r, "handleAddEvent", "clarifySend")
    /\ pendingEvents' = MapDelete(pendingEvents, r.user)
    /\ IF o = "ok" THEN Render(r, "clarify") /\ End(r)
                   ELSE UNCHANGED rendered /\ Goto(r, "sorrySend")
    /\ UNCHANGED <<input, output, ALLOWED_USER_ID, now, gemini, arrived, shown, calls, calendar>>
handleAddEvent_Clarified(r, o) ==
    /\ At(r, "handleAddEvent", "clarifySend")
    /\ IF o = "ok" THEN Render(r, "clarify") /\ End(r)
                   ELSE UNCHANGED rendered /\ Goto(r, "sorrySend")
    /\ UNCHANGED <<input, output, ALLOWED_USER_ID, now, gemini, arrived, pendingEvents, shown, calls, calendar>>

\* catch of bot.on('message'): await bot.sendMessage('Sorry, something went wrong')
Message_SorrySent(r, o) ==
    /\ r \in Running
    /\ r.handler \in {"handleAddEvent", "handleEventQueryNatural"}
    /\ r.pc = "sorrySend"
    /\ IF o = "ok" THEN Render(r, "sorry") /\ End(r)
                   ELSE UNCHANGED rendered /\ Reject(r)
    /\ UNCHANGED <<input, output, ALLOWED_USER_ID, now, gemini, arrived, pendingEvents, shown, calls, calendar>>

\* ------------------------------------------------------ handleEventQuery
\* bot.onText(/today, /tomorrow, /week): a command of an authorised user.
Message_Command(u) ==
    /\ arrived < MaxTasks
    /\ isAuthorized(u)
    /\ Start(NewTask("command", "handleEventQuery", u, "typing"))
    /\ UNCHANGED <<input, output, ALLOWED_USER_ID, now, gemini, pendingEvents, shown, rendered, calls, calendar>>

\* await bot.sendChatAction settled; queryFunction() is called
handleEventQuery_Typing(r, o) ==
    /\ At(r, "handleEventQuery", "typing")
    /\ Goto(r, IF o = "ok" THEN "read" ELSE "retrieveFailSend")
    /\ UNCHANGED <<input, output, ALLOWED_USER_ID, now, gemini, arrived, pendingEvents, shown, rendered, calls, calendar>>

\* await queryFunction() settled; the event list is sent
handleEventQuery_Read(r, o) ==
    /\ At(r, "handleEventQuery", "read")
    /\ Goto(r, IF o = "ok" THEN "listSend" ELSE "retrieveFailSend")
    /\ UNCHANGED <<input, output, ALLOWED_USER_ID, now, gemini, arrived, pendingEvents, shown, rendered, calls, calendar>>

\* await bot.sendMessage(formatEventsMessage(events)) settled
handleEventQuery_Listed(r, o) ==
    /\ At(r, "handleEventQuery", "listSend")
    /\ IF o = "ok" THEN Render(r, "events") /\ End(r)
                   ELSE UNCHANGED rendered /\ Goto(r, "retrieveFailSend")
    /\ UNCHANGED <<input, output, ALLOWED_USER_ID, now, gemini, arrived, pendingEvents, shown, calls, calendar>>

\* catch: await bot.sendMessage("Sorry, I couldn't retrieve your events right now")
handleEventQuery_Failed(r, o) ==
    /\ At(r, "handleEventQuery", "retrieveFailSend")
    /\ IF o = "ok" THEN Render(r, "could not retrieve") /\ End(r)
                   ELSE UNCHANGED rendered /\ Reject(r)
    /\ UNCHANGED <<input, output, ALLOWED_USER_ID, now, gemini, arrived, pendingEvents, shown, calls, calendar>>

\* ----------------------------------------------- handleEventQueryNatural
\* A free-text message that isQueryIntent classifies as a query.
Message_Query(u) ==
    /\ arrived < MaxTasks
    /\ isAuthorized(u)
    /\ Start(NewTask("text", "handleEventQueryNatural", u, "typing"))
    /\ UNCHANGED <<input, output, ALLOWED_USER_ID, now, gemini, pendingEvents, shown, rendered, calls, calendar>>

\* await bot.sendChatAction settled; parseTimeRange is called
handleEventQueryNatural_Typing(r, o) ==
    /\ At(r, "handleEventQueryNatural", "typing")
    /\ Goto(r, IF o = "ok" THEN "range" ELSE "retrieveFailSend")
    /\ UNCHANGED <<input, output, ALLOWED_USER_ID, now, gemini, arrived, pendingEvents, shown, rendered, calls, calendar>>

\* await parseTimeRange settled; queryCalendarEvents is called
handleEventQueryNatural_Range(r, o) ==
    /\ At(r, "handleEventQueryNatural", "range")
    /\ Goto(r, IF o = "ok" THEN "read" ELSE "retrieveFailSend")
    /\ UNCHANGED <<input, output, ALLOWED_USER_ID, now, gemini, arrived, pendingEvents, shown, rendered, calls, calendar>>

\* await queryCalendarEvents settled; the event list is sent
handleEventQueryNatural_Read(r, o) ==
    /\ At(r, "handleEventQueryNatural", "read")
    /\ Goto(r, IF o = "ok" THEN "listSend" ELSE "retrieveFailSend")
    /\ UNCHANGED <<input, output, ALLOWED_USER_ID, now, gemini, arrived, pendingEvents, shown, rendered, calls, calendar>>

\* await bot.sendMessage(formatEventsMessage(events)) settled
handleEventQueryNatural_Listed(r, o) ==
    /\ At(r, "handleEventQueryNatural", "listSend")
    /\ IF o = "ok" THEN Render(r, "events") /\ End(r)
                   ELSE UNCHANGED rendered /\ Goto(r, "retrieveFailSend")
    /\ UNCHANGED <<input, output, ALLOWED_USER_ID, now, gemini, arrived, pendingEvents, shown, calls, calendar>>

\* catch: await bot.sendMessage("Sorry, I couldn't retrieve your events")
handleEventQueryNatural_Failed(r, o) ==
    /\ At(r, "handleEventQueryNatural", "retrieveFailSend")
    /\ IF o = "ok" THEN Render(r, "could not retrieve") /\ End(r)
                   ELSE UNCHANGED rendered /\ Goto(r, "sorrySend")
    /\ UNCHANGED <<input, output, ALLOWED_USER_ID, now, gemini, arrived, pendingEvents, shown, calls, calendar>>

\* ------------------------------------------- bot.on('callback_query', ...)
\* A button press: query.from.id = u, query.data = data.  (The user id the
\* button carries in its callback_data is never read.)  handleEventConfirm /
\* handleEventCancel run up to their first await.
CallbackQuery(u, data) ==
    /\ arrived < MaxTasks
    /\ shown # <<>>
    /\ LET pending == MapGet(pendingEvents, u)
           h == Dispatch(data)
           pc == IF h = "confirm" THEN (IF HasPending(pending) THEN "typing" ELSE "expiredSend")
                 ELSE IF h = "cancel" THEN (IF HasPending(pending) THEN "edit" ELSE "cancelledSend")
                 ELSE "answer"
           handler == IF h = "confirm" THEN "handleEventConfirm"
                      ELSE IF h = "cancel" THEN "handleEventCancel"
                      ELSE "callback_query"
       IN Start([NewTask(data, handler, u, pc) EXCEPT
                      !.hadEntry = (u \in DOMAIN pendingEvents),
                      !.pending = IF h = "none" THEN NoEntry ELSE pending])
    /\ UNCHANGED <<input, output, ALLOWED_USER_ID, now, gemini, pendingEvents, shown, rendered, calls, calendar>>

\* The same button press, with the message it was made on: m is
\* query.message.message_id, a confirmation message sent to u.  (A press can
\* be delivered after the keyboard of its message was removed: it was made
\* before.)  The handlers read the store under query.from.id only.
CallbackQueryOn(u, data, m) ==
    /\ arrived < MaxTasks
    /\ m \in DOMAIN shown
    /\ shown[m].user = u
    /\ LET pending == MapGet(pendingEvents, u)
           h == Dispatch(data)
           pc == IF h = "confirm" THEN (IF HasPending(pending) THEN "typing" ELSE "expiredSend")
                 ELSE IF h = "cancel" THEN (IF HasPending(pending) THEN "edit" ELSE "cancelledSend")
                 ELSE "answer"
           handler == IF h = "confirm" THEN "handleEventConfirm"
                      ELSE IF h = "cancel" THEN "handleEventCancel"
                      ELSE "callback_query"
       IN Start([NewTask(data, handler, u, pc) EXCEPT
                      !.hadEntry = (u \in DOMAIN pendingEvents),
                      !.pending = IF h = "none" THEN NoEntry ELSE pending,
                      !.message = m])
    /\ UNCHANGED <<input, output, ALLOWED_USER_ID, now, gemini, pendingEvents, shown, rendered, calls, calendar>>

\* ---------------------------------------------------- handleEventConfirm
\* await bot.sendMessage('Sorry, this confirmation has expired') settled
handleEventConfirm_Expired(r, o) ==
    /\ At(r, "handleEventConfirm", "expiredSend")
    /\ IF o = "ok" THEN Render(r, "expired") /\ Goto(r, "answer")
                   ELSE UNCHANGED rendered /\ Reject(r)
    /\ UNCHANGED <<input, output, ALLOWED_USER_ID, now, gemini, arrived, pendingEvents, shown, calls, calendar>>

\* await bot.sendChatAction settled; createCalendarEvent is called and runs
\* validateEventData before its first await (getCalendarClient)
handleEventConfirm_TypingUnchecked(r, o) ==
    /\ At(r, "handleEventConfirm", "typing")
    /\ IF o = "ok"
         THEN /\ calls' = Append(calls, [signal |-> r.signal, user |-> r.user,
                                         hadEntry |-> r.hadEntry,
                                         messageId |-> r.pending.messageId,
                                         eventDetails |-> r.pending.eventDetails,
                                         timezone |-> TIMEZONE])
              /\ Goto(r, "auth")
         ELSE /\ Catch(r, "sendChatAction", "failedSend")
              /\ UNCHANGED calls
    /\ UNCHANGED <<input, output, ALLOWED_USER_ID, now, gemini, arrived, pendingEvents, shown, rendered, calendar>>
handleEventConfirm_Typing(r, o) ==
    /\ At(r, "handleEventConfirm", "typing")
    /\ IF o = "ok"
         THEN /\ calls' = Append(calls, [signal |-> r.signal, user |-> r.user,
                                         hadEntry |-> r.hadEntry,
                                         messageId |-> r.pending.messageId,
                                         eventDetails |-> r.pending.eventDetails,
                                         timezone |-> TIMEZONE])
              /\ IF validateEventData(r.pending.eventDetails, now) # <<>>
                   THEN Catch(r, "Invalid event data", "failedSend")
                   ELSE Goto(r, "auth")
         ELSE /\ Catch(r, "sendChatAction", "failedSend")
              /\ UNCHANGED calls
    /\ UNCHANGED <<input, output, ALLOWED_USER_ID, now, gemini, arrived, pendingEvents, shown, rendered, calendar>>

\* createCalendarEvent: await getCalendarClient() settled; events.insert is issued
createCalendarEvent_Auth(r, o) ==
    /\ At(r, "handleEventConfirm", "auth")
    /\ IF o = "ok" THEN Goto(r, "insert")
                   ELSE Catch(r, "Failed to create calendar event", "failedSend")
    /\ UNCHANGED <<input, output, ALLOWED_USER_ID, now, gemini, arrived, pendingEvents, shown, rendered, calls, calendar>>

\* createCalendarEvent: await calendar.events.insert settled
createCalendarEvent_Insert(r, o) ==
    /\ At(r, "handleEventConfirm", "insert")
    /\ IF o = "ok"
         THEN LET resource == CalendarResource(r.pending.eventDetails, TIMEZONE)
              IN /\ calendar' = Append(calendar, [user |-> r.user,
                                                  messageId |-> r.pending.messageId,
                                                  resource |-> resource])
                 /\ Step(r, [r EXCEPT !.pc = "createdSend", !.event = resource])
         ELSE /\ Catch(r, "Failed to create calendar event", "failedSend")
              /\ UNCHANGED calendar
    /\ UNCHANGED <<input, output, ALLOWED_USER_ID, now, gemini, arrived, pendingEvents, shown, rendered, calls>>

\* await bot.sendMessage(formatEventCreatedMessage(event)) settled
handleEventConfirm_Created(r, o) ==
    /\ At(r, "handleEventConfirm", "createdSend")
    /\ IF o = "ok" THEN Render(r, "created") /\ Goto(r, "edit")
                   ELSE UNCHANGED rendered /\ Catch(r, "sendMessage", "failedSend")
    /\ UNCHANGED <<input, output, ALLOWED_USER_ID, now, gemini, arrived, pendingEvents, shown, calls, calendar>>

\* await bot.editMessageReplyMarkup settled; then pendingEvents.delete(userId)
handleEventConfirm_Edited(r, o) ==
    /\ At(r, "handleEventConfirm", "edit")
    /\ IF o = "ok"
         THEN /\ pendingEvents' = MapDelete(pendingEvents, r.user)
              /\ Goto(r, "answer")
         ELSE /\ Catch(r, "editMessageReplyMarkup", "failedSend")
              /\ UNCHANGED pendingEvents
    /\ UNCHANGED <<input, output, ALLOWED_USER_ID, now, gemini, arrived, shown, rendered, calls, calendar>>

\* catch: await bot.sendMessage("Sorry, I couldn't create the event") settled
handleEventConfirm_Failed(r, o) ==
    /\ At(r, "handleEventConfirm", "failedSend")
    /\ IF o = "ok" THEN Render(r, "failed") /\ Goto(r, "answer")
                   ELSE UNCHANGED rendered /\ Reject(r)
    /\ UNCHANGED <<input, output, ALLOWED_USER_ID, now, gemini, arrived, pendingEvents, shown, calls, calendar>>

\* ----------------------------------------------------- handleEventCancel
\* await bot.editMessageReplyMarkup settled; then pendingEvents.delete(userId)
\* and bot.sendMessage('Event cancelled.') is issued
handleEventCancel_Edited(r, o) ==
    /\ At(r, "handleEventCancel", "edit")
    /\ IF o = "ok"
         THEN /\ pendingEvents' = MapDelete(pendingEvents, r.user)
              /\ Goto(r, "cancelledSend")
         ELSE /\ Reject(r)
              /\ UNCHANGED pendingEvents
    /\ UNCHANGED <<input, output, ALLOWED_USER_ID, now, gemini, arrived, shown, rendered, calls, calendar>>

\* await bot.sendMessage('Event cancelled.') settled
handleEventCancel_Cancelled(r, o) ==
    /\ At(r, "handleEventCancel", "cancelledSend")
    /\ IF o = "ok" THEN Render(r, "cancelled") /\ Goto(r, "answer")
                   ELSE UNCHANGED rendered /\ Reject(r)
    /\ UNCHANGED <<input, output, ALLOWED_USER_ID, now, gemini, arrived, pendingEvents, shown, calls, calendar>>

\* await bot.answerCallbackQuery(query.id) settled
CallbackQuery_Answered(r, o) ==
    /\ r \in Running
    /\ r.pc = "answer"
    /\ IF o = "ok" THEN End(r) ELSE Reject(r)
    /\ UNCHANGED <<input, output, ALLOWED_USER_ID, now, gemini, arrived, pendingEvents, shown, rendered, calls, calendar>>

\* ------------------------------------------------------------------ Next
Signals == {"confirm_", "cancel_", "other"}

\* The event-creation core: free-text event descriptions and button presses.
Next ==
    \/ \E u \in Users : Message_AddEvent(u)
    \/ \E r \in Running, o \in Outcomes : handleAddEvent_Typing(r, o)
    \/ \E r \in Running, raw \in gemini : handleAddEvent_Parsed(r, raw)
    \/ \E r \in Running, o \in Outcomes : handleAddEvent_Shown(r, o)
    \/ \E r \in Running, o \in Outcomes : handleAddEvent_Clarified(r, o)
    \/ \E r \in Running, o \in Outcomes : Message_SorrySent(r, o)
    \/ \E u \in Users, data \in Signals : CallbackQuery(u, data)
    \/ \E r \in Running, o \in Outcomes : handleEventConfirm_Expired(r, o)
    \/ \E r \in Running, o \in Outcomes : handleEventConfirm_Typing(r, o)
    \/ \E r \in Running, o \in Outcomes : createCalendarEvent_Auth(r, o)
    \/ \E r \in Running, o \in Outcomes : createCalendarEvent_Insert(r, o)
    \/ \E r \in Running, o \in Outcomes : handleEventConfirm_Created(r, o)
    \/ \E r \in Running, o \in Outcomes : handleEventConfirm_Edited(r, o)
    \/ \E r \in Running, o \in Outcomes : handleEventConfirm_Failed(r, o)
    \/ \E r \in Running, o \in Outcomes : handleEventCancel_Edited(r, o)
    \/ \E r \in Running, o \in Outcomes : handleEventCancel_Cancelled(r, o)
    \/ \E r \in Running, o \in Outcomes : CallbackQuery_Answered(r, o)

Spec == Init /\ [][Next]_vars

\* The whole bot: commands, schedule queries and unauthorised users as well,
\* with TELEGRAM_ALLOWED_USER_ID set to user 1 (user 2 is not authorised).
InitBot ==
    /\ ALLOWED_USER_ID = 1
    /\ now = [day |-> 10, min |-> 540, utc |-> 0]
    /\ gemini = {RawA, RawB, AIFail}
    /\ pendingEvents = <<>>
    /\ tasks = EmptyBag
    /\ arrived = 0
    /\ shown = <<>>
    /\ rendered = {}
    /\ calls = <<>>
    /\ calendar = <<>>
    /\ input = NoInput
    /\ output = NoOutput

NextBot ==
    \/ Next
    \/ \E u \in Users : Message_Unauthorized(u)
    \/ \E r \in Running, o \in Outcomes : Message_PrivateSent(r, o)
    \/ \E u \in Users : Message_Command(u)
    \/ \E r \in Running, o \in Outcomes : handleEventQuery_Typing(r, o)
    \/ \E r \in Running, o \in Outcomes : handleEventQuery_Read(r, o)
    \/ \E r \in Running, o \in Outcomes : handleEventQuery_Listed(r, o)
    \/ \E r \in Running, o \in Outcomes : handleEventQuery_Failed(r, o)
    \/ \E u \in Users : Message_Query(u)
    \/ \E r \in Running, o \in Outcomes : handleEventQueryNatural_Typing(r, o)
    \/ \E r \in Running, o \in Outcomes : handleEventQueryNatural_Range(r, o)
    \/ \E r \in Running, o \in Outcomes : handleEventQueryNatural_Read(r, o)
    \/ \E r \in Running, o \in Outcomes : handleEventQueryNatural_Listed(r, o)
    \/ \E r \in Running, o \in Outcomes : handleEventQueryNatural_Failed(r, o)

SpecBot == InitBot /\ [][NextBot]_vars

\* The event-creation core of one configured user, with the start order of
\* the add flows and the message of every button press recorded.
NextOverlap ==
    \/ \E u \in Users : Message_AddEventLate(u)
    \/ \E u \in Users : Message_Unauthorized(u)
    \/ \E r \in Running, o \in Outcomes : Message_PrivateSent(r, o)
    \/ \E r \in Running, o \in Outcomes : handleAddEvent_Typing(r, o)
    \/ \E r \in Running, raw \in gemini : handleAddEvent_Parsed(r, raw)
    \/ \E r \in Running, o \in Outcomes : handleAddEvent_Shown(r, o)
    \/ \E r \in Running, o \in Outcomes : handleAddEvent_Clarified(r, o)
    \/ \E r \in Running, o \in Outcomes : Message_SorrySent(r, o)
    \/ \E u \in Users, data \in Signals, m \in 1..MaxShown : CallbackQueryOn(u, data, m)
    \/ \E r \in Running, o \in Outcomes : handleEventConfirm_Expired(r, o)
    \/ \E r \in Running, o \in Outcomes : handleEventConfirm_Typing(r, o)
    \/ \E r \in Running, o \in Outcomes : createCalendarEvent_Auth(r, o)
    \/ \E r \in Running, o \in Outcomes : createCalendarEvent_Insert(r, o)
    \/ \E r \in Running, o \in Outcomes : handleEventConfirm_Created(r, o)
    \/ \E r \in Running, o \in Outcomes : handleEventConfirm_Edited(r, o)
    \/ \E r \in Running, o \in Outcomes : handleEventConfirm_Failed(r, o)
    \/ \E r \in Running, o \in Outcomes : handleEventCancel_Edited(r, o)
    \/ \E r \in Running, o \in Outcomes : handleEventCancel_Cancelled(r, o)
    \/ \E r \in Running, o \in Outcomes : CallbackQuery_Answered(r, o)

SpecOverlap == InitBot /\ [][NextOverlap]_vars

\* The event-creation core with the drafts a validator would object to: a
\* date in the past and times that are no clock times.
InitDrafts ==
    /\ ALLOWED_USER_ID = 0
    /\ now = [day |-> 10, min |-> 540, utc |-> 0]
    /\ gemini = {RawPast, RawBadClock, RawEndEqStart, AIFail}
    /\ pendingEvents = <<>>
    /\ tasks = EmptyBag
    /\ arrived = 0
    /\ shown = <<>>
    /\ rendered = {}
    /\ calls = <<>>
    /\ calendar = <<>>
    /\ input = NoInput
    /\ output = NoOutput

SpecDrafts == InitDrafts /\ [][Next]_vars

\* ------------------------------------------- parseEventDetails on its own
\* What generateJSON can hand to parseEventDetails: every confidence (also
\* absent), ambiguities absent, empty or filled, start times before, at and
\* after the clock, and a start time that is no clock time.
ExtractResults ==
    {[summary |-> "A", description |-> "about A", date |-> d,
      startTime |-> st, endTime |-> et, confidence |-> c, ambiguities |-> a] :
        d \in {9, 10, 11},
        st \in {<<8, 0>>, <<9, 0>>, <<10, 0>>, <<25, 0>>},
        et \in {<<9, 30>>, <<11, 0>>},
        c \in {"high", "medium", "low", ""},
        a \in {NoList, List(<<>>), List(<<"assumed 1 hour">>)}}

InitExtract ==
    /\ ALLOWED_USER_ID = 0
    /\ now = [day |-> 10, min |-> 540, utc |-> 0]
    /\ gemini = {}
    /\ pendingEvents = <<>>
    /\ tasks = EmptyBag
    /\ arrived = 0
    /\ shown = <<>>
    /\ rendered = {}
    /\ calls = <<>>
    /\ calendar = <<>>
    /\ input \in {[result |-> raw] : raw \in ExtractResults \cup {AIFail}}
    /\ output = NoOutput

\* const eventDetails = await parseEventDetails(msg.text, TIMEZONE)
parseEventDetails_Call ==
    /\ output = NoOutput
    /\ output' = parseEventDetails(input.result, now)
    /\ UNCHANGED <<input, ALLOWED_USER_ID, now, gemini, pendingEvents, tasks, arrived,
                   shown, rendered, calls, calendar>>

NextExtract == parseEventDetails_Call

SpecExtract == InitExtract /\ [][NextExtract]_vars

\* ------------------------------------------------ parseTimeRange on its own
\* A text is a sequence of characters.
Letters ==
    <<"a", "b", "c", "d", "e", "f", "g", "h", "i", "j", "k", "l", "m", "n", "o", "p", "q", "r", "s", "t", "u", "v", "w", "x", "y", "z">>
Capitals ==
    <<"A", "B", "C", "D", "E", "F", "G", "H", "I", "J", "K", "L", "M", "N", "O", "P", "Q", "R", "S", "T", "U", "V", "W", "X", "Y", "Z">>
WhiteSpace == {" ", "\t", "\n"}

\* String.prototype.toLowerCase / toUpperCase
toLowerCase(str) ==
    [i \in 1..Len(str) |->
        IF \E k \in 1..Len(Capitals) : Capitals[k] = str[i]
          THEN Letters[CHOOSE k \in 1..Len(Capitals) : Capitals[k] = str[i]]
          ELSE str[i]]
toUpperCase(str) ==
    [i \in 1..Len(str) |->
        IF \E k \in 1..Len(Letters) : Letters[k] = str[i]
          THEN Capitals[CHOOSE k \in 1..Len(Letters) : Letters[k] = str[i]]
          ELSE str[i]]

\* String.prototype.trim
RECURSIVE trimStart(_)
trimStart(str) ==
    IF str # <<>> /\ Head(str) \in WhiteSpace THEN trimStart(Tail(str)) ELSE str
RECURSIVE trimEnd(_)
trimEnd(str) ==
    IF str # <<>> /\ str[Len(str)] \in WhiteSpace
      THEN trimEnd(SubSeq(str, 1, Len(str) - 1)) ELSE str
trimNothing(str) == str
trim(str) == trimEnd(trimStart(str))

\* the case labels of the switch in parseQuickShortcuts
Spell ==
    ("today" :> <<"t", "o", "d", "a", "y">>)
    @@ ("tomorrow" :> <<"t", "o", "m", "o", "r", "r", "o", "w">>)
    @@ ("yesterday" :> <<"y", "e", "s", "t", "e", "r", "d", "a", "y">>)
    @@ ("this week" :> <<"t", "h", "i", "s", " ", "w", "e", "e", "k">>)
    @@ ("week" :> <<"w", "e", "e", "k">>)
    @@ ("next week" :> <<"n", "e", "x", "t", " ", "w", "e", "e", "k">>)
    @@ ("this weekend" :> <<"t", "h", "i", "s", " ", "w", "e", "e", "k", "e", "n", "d">>)

\* Dates of the process: seconds of its local wall clock since day 0, 00:00;
\* day 8 is a Sunday (2025-06-08).  date-fns works on this local wall clock.
Instant(clock) == clock.day * 86400 + clock.min * 60
getDay(t) == ((t \div 86400) + 6) % 7
startOfDay(t) == t - (t % 86400)
endOfDay(t) == startOfDay(t) + 86399
addDays(t, n) == t + n * 86400
addWeeks(t, n) == t + n * 7 * 86400
\* startOfWeek / endOfWeek with { weekStartsOn: 1 }
startOfWeek(t) == startOfDay(t) - ((getDay(t) + 6) % 7) * 86400
endOfWeek(t) == startOfWeek(t) + 7 * 86400 - 1

\* "yyyy-MM-dd'T'HH:mm:ss"
DateTime(date, time, sec) == [date |-> date, time |-> time, sec |-> sec]
\* formatInTimeZone(date, timezone, "yyyy-MM-dd'T'HH:mm:ss"): the wall clock of
\* the zone, which is `timezone` hours ahead of the process's zone
formatInTimeZone(t, timezone) ==
    LET w == t + timezone * 3600
    IN DateTime(w \div 86400, <<(w % 86400) \div 3600, (w % 3600) \div 60>>, w % 60)

NoRange == [undefined |-> TRUE]    \* parseQuickShortcuts returns null

parseQuickShortcuts(expression, timezone, clock) ==
    LET normalized == trim(toLowerCase(expression))
        t == Instant(clock)
        range(start, end, description) ==
            [startDate |-> formatInTimeZone(start, timezone),
             endDate |-> formatInTimeZone(end, timezone),
             description |-> description,
             confidence |-> "high"]
    IN  IF normalized = Spell["today"]
          THEN range(startOfDay(t), endOfDay(t), Spell["today"])
        ELSE IF normalized = Spell["tomorrow"]
          THEN range(startOfDay(addDays(t, 1)), endOfDay(addDays(t, 1)), Spell["tomorrow"])
        ELSE IF normalized = Spell["yesterday"]
          THEN range(startOfDay(addDays(t, -1)), endOfDay(addDays(t, -1)), Spell["yesterday"])
        ELSE IF normalized = Spell["this week"] \/ normalized = Spell["week"]
          THEN range(startOfWeek(t), endOfWeek(t), Spell["this week"])
        ELSE IF normalized = Spell["next week"]
          THEN LET nextWeekStart == addWeeks(startOfWeek(t), 1)
               IN range(nextWeekStart, endOfWeek(nextWeekStart), Spell["next week"])
        ELSE IF normalized = Spell["this weekend"]
          THEN LET dayOfWeek == getDay(t)
                   daysUntilSaturday == IF dayOfWeek <= 6 THEN 6 - dayOfWeek ELSE 0
                   saturday == addDays(t, daysUntilSaturday)
               IN range(startOfDay(saturday), endOfDay(addDays(saturday, 1)),
                        Spell["this weekend"])
        ELSE NoRange

\* parseTimeRange, with `ai` what generateJSON settles with if it is called;
\* the result says what was returned or thrown and how often generateJSON ran
parseTimeRangeNoEndCheck(timeExpression, timezone, clock, ai) ==
    LET quickParse == parseQuickShortcuts(timeExpression, timezone, clock)
    IN  IF quickParse # NoRange THEN [value |-> quickParse, generateJSON |-> 0]
        ELSE [generateJSON |-> 1,
              value |->
                IF IsError(ai) THEN Throw("Failed to parse time range")
                ELSE IF ai.startDate = NoDate THEN Throw("Failed to parse time range")
                ELSE [startDate |-> DateTime(ai.startDate,
                          IF ai.startTime = NoTime THEN <<0, 0>> ELSE ai.startTime, 0),
                      endDate |-> DateTime(ai.endDate,
                          IF ai.endTime = NoTime THEN <<23, 59>> ELSE ai.endTime, 59),
                      description |->
                          IF ai.description = <<>> THEN timeExpression ELSE ai.description,
                      confidence |->
                          IF ai.confidence = "" THEN "medium" ELSE ai.confidence]]
parseTimeRange(timeExpression, timezone, clock, ai) ==
    LET quickParse == parseQuickShortcuts(timeExpression, timezone, clock)
    IN  IF quickParse # NoRange THEN [value |-> quickParse, generateJSON |-> 0]
        ELSE [generateJSON |-> 1,
              value |->
                IF IsError(ai) THEN Throw("Failed to parse time range")
                ELSE IF ai.startDate = NoDate \/ ai.endDate = NoDate
                  THEN Throw("Failed to parse time range")
                ELSE [startDate |-> DateTime(ai.startDate,
                          IF ai.startTime = NoTime THEN <<0, 0>> ELSE ai.startTime, 0),
                      endDate |-> DateTime(ai.endDate,
                          IF ai.endTime = NoTime THEN <<23, 59>> ELSE ai.endTime, 59),
                      description |->
                          IF ai.description = <<>> THEN timeExpression ELSE ai.description,
                      confidence |->
                          IF ai.confidence = "" THEN "medium" ELSE ai.confidence]]

\* What generateJSON can hand to parseTimeRange.
RangeDays == [startDate |-> 12, endDate |-> 13, startTime |-> NoTime, endTime |-> NoTime,
              confidence |-> "low", description |-> <<>>]
RangeHours == [startDate |-> 12, endDate |-> 12, startTime |-> <<9, 0>>, endTime |-> <<17, 0>>,
               confidence |-> "", description |-> <<"d", "a", "y">>]
RangeNoStart == [RangeDays EXCEPT !.startDate = NoDate]
RangeNoEnd == [RangeHours EXCEPT !.endDate = NoDate]
RangeBackwards == [RangeDays EXCEPT !.startDate = 12, !.endDate = 10]
RangeOutcomes == {RangeDays, RangeHours, RangeNoStart, RangeNoEnd, RangeBackwards, AIFail}

\* The expressions: every phrase of the table as it is, capitalised, in upper
\* case and with surrounding whitespace, and texts that are no shortcut.
\* `phrase` records which phrase an expression was written from ("" for none).
Phrases == DOMAIN Spell
Expressions ==
    UNION {{[expression |-> Spell[p], phrase |-> p],
            [expression |-> toUpperCase(Spell[p]), phrase |-> p],
            [expression |-> toUpperCase(<<Head(Spell[p])>>) \o Tail(Spell[p]), phrase |-> p],
            [expression |-> <<" ", "\t">> \o Spell[p] \o <<"\n">>, phrase |-> p]} :
           p \in Phrases}
    \cup {[expression |-> <<"n", "e", "x", "t", " ", "m", "o", "n", "d", "a", "y">>, phrase |-> ""],
          [expression |-> <<"w", "e", "e", "k", "e", "n", "d">>, phrase |-> ""],
          [expression |-> <<"t", "h", "i", "s", " ", " ", "w", "e", "e", "k">>, phrase |-> ""]}

\* TIMEZONE's wall clock is this many hours ahead of the process's: 0 when the
\* bot runs in the user's zone, 10 for a UTC host with Australia/Sydney.
ZoneHours == {0, 10}

InitResolve ==
    /\ ALLOWED_USER_ID = 0
    /\ now \in {[day |-> d, min |-> m, utc |-> 0] : d \in 8..14, m \in {540, 1410}}
    /\ gemini = {}
    /\ pendingEvents = <<>>
    /\ tasks = EmptyBag
    /\ arrived = 0
    /\ shown = <<>>
    /\ rendered = {}
    /\ calls = <<>>
    /\ calendar = <<>>
    /\ input \in {[expression |-> e.expression, phrase |-> e.phrase,
                    timezone |-> z, ai |-> ai] :
                       e \in Expressions, z \in ZoneHours, ai \in RangeOutcomes}
    /\ output = NoOutput

\* await parseTimeRange(timeExpression, TIMEZONE)
parseTimeRange_Call ==
    /\ output = NoOutput
    /\ output' = parseTimeRange(input.expression, input.timezone, now, input.ai)
    /\ UNCHANGED <<input, ALLOWED_USER_ID, now, gemini, pendingEvents, tasks, arrived,
                   shown, rendered, calls, calendar>>

NextResolve == parseTimeRange_Call

SpecResolve == InitResolve /\ [][NextResolve]_vars

\* --------------------------------------------- the /week range on its own
\* GOOGLE_CALENDAR_TIMEZONE of the deployment (Australia/Sydney), in hours
\* ahead of UTC
ZoneOffset == 10

\* Date.prototype.toISOString: the wall clock of UTC, which the process's
\* zone is clock.utc hours ahead of (whole seconds; the model has no
\* milliseconds)
toISOString(t, clock) ==
    LET w == t - clock.utc * 3600
    IN DateTime(w \div 86400, <<(w % 86400) \div 3600, (w % 3600) \div 60>>, w % 60)

\* getWeekEvents: the timeMin / timeMax it passes to queryCalendarEvents
getWeekEvents(clock) ==
    LET t == Instant(clock)
        dayOfWeek == getDay(t)
        daysToMonday == IF dayOfWeek = 0 THEN -6 ELSE 1 - dayOfWeek
        weekStart == startOfDay(addDays(t, daysToMonday))
        weekEnd == startOfDay(addDays(weekStart, 6)) + 23 * 3600 + 59 * 60 + 59
    IN [timeMin |-> toISOString(weekStart, clock),
        timeMax |-> toISOString(weekEnd, clock),
        maxResults |-> 50]

\* The week phrases, asked as a question and as the /week command at the same
\* moment, on every day of the week, with the process in TIMEZONE (local
\* run) and in UTC (hosted run).
WeekPhrases == {"this week", "week", "next week"}

InitWeek ==
    /\ ALLOWED_USER_ID = 0
    /\ gemini = {}
    /\ pendingEvents = <<>>
    /\ tasks = EmptyBag
    /\ arrived = 0
    /\ shown = <<>>
    /\ rendered = {}
    /\ calls = <<>>
    /\ calendar = <<>>
    /\ input \in {[expression |-> e.expression, phrase |-> e.phrase,
                    timezone |-> z, ai |-> AIFail] :
                       e \in {x \in Expressions : x.phrase \in WeekPhrases}, z \in ZoneHours}
    /\ now \in {[day |-> d, min |-> m, utc |-> ZoneOffset - input.timezone] :
                   d \in 8..14, m \in {30, 540, 1410}}
    /\ output = [range |-> NoOutput, week |-> NoOutput]

\* handleEventQueryNatural: await parseTimeRange(timeExpression, TIMEZONE)
handleEventQueryNatural_Call ==
    /\ output.range = NoOutput
    /\ output' = [output EXCEPT
                    !.range = parseTimeRange(input.expression, input.timezone, now, input.ai)]
    /\ UNCHANGED <<input, ALLOWED_USER_ID, now, gemini, pendingEvents, tasks, arrived,
                   shown, rendered, calls, calendar>>

\* handleEventQuery('week'): await getWeekEvents()
getWeekEvents_Call ==
    /\ output.week = NoOutput
    /\ output' = [output EXCEPT !.week = getWeekEvents(now)]
    /\ UNCHANGED <<input, ALLOWED_USER_ID, now, gemini, pendingEvents, tasks, arrived,
                   shown, rendered, calls, calendar>>

NextWeek ==
    \/ handleEventQueryNatural_Call
    \/ getWeekEvents_Call

SpecWeek == InitWeek /\ [][NextWeek]_vars

\* ------------------------------------------- validateEventData on its own
\* Drafts with every field present, absent and not of the required form,
\* dates from today back to three days ago, times in and out of clock range.
ValidateDrafts ==
    {[summary |-> s, description |-> "", date |-> d, startTime |-> st, endTime |-> et] :
        s \in {"A", "", " "},
        d \in {NoDate, -1, 7, 8, 9, 10},
        st \in {NoTime, <<3>>, <<9, 0>>, <<25, 0>>},
        et \in {NoTime, <<3>>, <<9, 0>>, <<10, 0>>, <<10, 70>>}}

InitValidate ==
    /\ ALLOWED_USER_ID = 0
    /\ now \in {[day |-> 10, min |-> 540, utc |-> z] : z \in {0, ZoneOffset}}
    /\ gemini = {}
    /\ pendingEvents = <<>>
    /\ tasks = EmptyBag
    /\ arrived = 0
    /\ shown = <<>>
    /\ rendered = {}
    /\ calls = <<>>
    /\ calendar = <<>>
    /\ input \in {[eventDetails |-> d] : d \in ValidateDrafts}
    /\ output = NoOutput

\* const errors = validateEventData(eventDetails)
validateEventData_Call ==
    /\ output = NoOutput
    /\ output' = [errors |-> validateEventData(input.eventDetails, now)]
    /\ UNCHANGED <<input, ALLOWED_USER_ID, now, gemini, pendingEvents, tasks, arrived,
                   shown, rendered, calls, calendar>>

NextValidate == validateEventData_Call

SpecValidate == InitValidate /\ [][NextValidate]_vars

\* ------------------------------------------------ isQueryIntent on its own
\* String.prototype.includes
includes(str, search) ==
    \E i \in 0..(Len(str) - Len(search)) : SubSeq(str, i + 1, i + Len(search)) = search

queryKeywordsAndWeek ==
    <<<<"w", "h", "a", "t">>,
      <<"s", "h", "o", "w">>,
      <<"p", "l", "a", "n", "s">>,
      <<"s", "c", "h", "e", "d", "u", "l", "e">>,
      <<"c", "a", "l", "e", "n", "d", "a", "r">>,
      <<"d", "o", " ", "i", " ", "h", "a", "v", "e">>,
      <<"a", "n", "y", " ", "e", "v", "e", "n", "t", "s">>,
      <<"w", "e", "e", "k">>>>
queryKeywords ==
    <<<<"w", "h", "a", "t">>,
      <<"s", "h", "o", "w">>,
      <<"p", "l", "a", "n", "s">>,
      <<"s", "c", "h", "e", "d", "u", "l", "e">>,
      <<"c", "a", "l", "e", "n", "d", "a", "r">>,
      <<"d", "o", " ", "i", " ", "h", "a", "v", "e">>,
      <<"a", "n", "y", " ", "e", "v", "e", "n", "t", "s">>>>

\* isQueryIntent(text)
isQueryIntentCaseSensitive(text) ==
    IF text = <<>> THEN FALSE
    ELSE \E k \in 1..Len(queryKeywords) : includes(text, queryKeywords[k])
isQueryIntent(text) ==
    IF text = <<>> THEN FALSE
    ELSE LET lowerText == toLowerCase(text)
         IN \E k \in 1..Len(queryKeywords) : includes(lowerText, queryKeywords[k])

\* The texts: every keyword alone, in upper case, capitalised and inside a
\* sentence, and texts without a keyword.  `keyword` records which keyword a
\* text was written with (0 for none).
Sentences(k) ==
    LET w == queryKeywords[k]
    IN {w, toUpperCase(w), toUpperCase(<<Head(w)>>) \o Tail(w),
        <<"o", "k", ",", " ">> \o w, w \o <<" ", "t", "o", "d", "a", "y", "?">>,
        <<"S", "o", " ">> \o toUpperCase(w) \o <<" ", "t", "h", "e", "n">>,
        <<"r", "e">> \o w \o <<"d">>}
Plain ==
    {<<>>,
     <<"M", "e", "e", "t", "i", "n", "g", " ", "t", "o", "m", "o", "r", "r", "o", "w", " ", "3", "p", "m">>,
     <<"L", "u", "n", "c", "h", " ", "w", "i", "t", "h", " ", "S", "a", "r", "a", "h", " ", "o", "n", " ", "f", "r", "i", "d", "a", "y", " ", "a", "t", " ", "n", "o", "o", "n">>,
     <<"w", "h", "a", " ", "t">>,
     <<"p", "l", "a", "n">>,
     <<"d", "o", " ", "i", " ", " ", "h", "a", "v", "e">>,
     <<"a", "n", "y", "e", "v", "e", "n", "t", "s">>,
     <<"c", "a", "l", "e", "n", "d", "e", "r">>,
     <<"s", "h", "o", " ", "w">>,
     <<"s", "c", "h", "e", "d", " ", "u", "l", "e">>,
     <<" ">>}
Texts ==
    UNION {{[text |-> t, keyword |-> k] : t \in Sentences(k)} : k \in 1..Len(queryKeywords)}
    \cup {[text |-> t, keyword |-> 0] : t \in Plain}

InitIntent ==
    /\ ALLOWED_USER_ID = 0
    /\ now = [day |-> 10, min |-> 540, utc |-> 0]
    /\ gemini = {}
    /\ pendingEvents = <<>>
    /\ tasks = EmptyBag
    /\ arrived = 0
    /\ shown = <<>>
    /\ rendered = {}
    /\ calls = <<>>
    /\ calendar = <<>>
    /\ input \in Texts
    /\ output = NoOutput

\* bot.on('message'): isQueryIntent(msg.text) chooses the handler
isQueryIntent_Call ==
    /\ output = NoOutput
    /\ output' = [handler |-> IF isQueryIntent(input.text)
                                 THEN "handleEventQueryNatural" ELSE "handleAddEvent"]
    /\ UNCHANGED <<input, ALLOWED_USER_ID, now, gemini, pendingEvents, tasks, arrived,
                   shown, rendered, calls, calendar>>

NextIntent == isQueryIntent_Call

SpecIntent == InitIntent /\ [][NextIntent]_vars

\* ---------------------------------------------- generateContent on its own
\* const { maxRetries = 3 } = options
DefaultMaxRetries == 3
MaxRetriesOption == 4     \* the largest maxRetries a caller passes
NoOptions == [undefined |-> TRUE]
Undefined == [undefined |-> TRUE]     \* the value of a function that falls off its end

\* How one call of model.generateContent(...) followed by response.text()
\* settles: a text (JSON, JSON in a ```json block, or other text), the empty
\* text, or an error whose message has '429', has 'rate limit', or has neither.
ModelTexts == {"json", "fenced json", "prose"}
ModelOutcomes == ModelTexts \cup {"", "429", "rate limit", "other error"}

\* Math.pow(2, attempt) * 1000
RECURSIVE pow(_, _)
pow(b, n) == IF n = 0 THEN 1 ELSE b * pow(b, n - 1)

\* The frame of the call: output is [pc, maxRetries, attempt, calls, waits,
\* result]; calls counts model.generateContent calls, waits lists the delays
\* slept, result is what the call returned or threw once pc is "done".
InitGenerate ==
    /\ ALLOWED_USER_ID = 0
    /\ now = [day |-> 10, min |-> 540, utc |-> 0]
    /\ gemini = {}
    /\ pendingEvents = <<>>
    /\ tasks = EmptyBag
    /\ arrived = 0
    /\ shown = <<>>
    /\ rendered = {}
    /\ calls = <<>>
    /\ calendar = <<>>
    /\ input \in {[options |-> o] :
                    o \in {NoOptions} \cup {[maxRetries |-> m] : m \in 0..MaxRetriesOption}}
    /\ output = [pc |-> "loop",
                 maxRetries |-> IF input.options = NoOptions
                                  THEN DefaultMaxRetries ELSE input.options.maxRetries,
                 attempt |-> 0, calls |-> 0, waits |-> <<>>, result |-> NoOutput]

Generating(pc) == "pc" \in DOMAIN output /\ output.pc = pc

\* for (...; attempt < maxRetries; ...): call the model, or leave the loop
\* and fall off the end of the function
generateContent_Loop ==
    /\ Generating("loop")
    /\ output' = IF output.attempt < output.maxRetries
                   THEN [output EXCEPT !.pc = "model", !.calls = @ + 1]
                   ELSE [output EXCEPT !.pc = "done", !.result = Undefined]
    /\ UNCHANGED <<input, ALLOWED_USER_ID, now, gemini, pendingEvents, tasks, arrived,
                   shown, rendered, calls, calendar>>

\* the model call settles, every error being retried until the last attempt
generateContent_SettledRetriesAll(o) ==
    /\ Generating("model")
    /\ LET isLastAttempt == output.attempt = output.maxRetries - 1
       IN output' =
            IF o \in ModelTexts
              THEN [output EXCEPT !.pc = "done", !.result = [text |-> o]]
            ELSE IF ~isLastAttempt
              THEN [output EXCEPT !.pc = "sleep",
                                  !.waits = Append(@, pow(2, output.attempt) * 1000)]
            ELSE [output EXCEPT !.pc = "done",
                                !.result = [error |-> "Gemini API error", cause |-> o]]
    /\ UNCHANGED <<input, ALLOWED_USER_ID, now, gemini, pendingEvents, tasks, arrived,
                   shown, rendered, calls, calendar>>

\* the model call settles: return the text, or the catch block
generateContent_Settled(o) ==
    /\ Generating("model")
    /\ LET isRateLimit == o \in {"429", "rate limit"}
           isLastAttempt == output.attempt = output.maxRetries - 1
       IN output' =
            IF o \in ModelTexts
              THEN [output EXCEPT !.pc = "done", !.result = [text |-> o]]
            ELSE IF isRateLimit /\ ~isLastAttempt
              THEN [output EXCEPT !.pc = "sleep",
                                  !.waits = Append(@, pow(2, output.attempt) * 1000)]
            ELSE [output EXCEPT !.pc = "done",
                                !.result = [error |-> "Gemini API error", cause |-> o]]
    /\ UNCHANGED <<input, ALLOWED_USER_ID, now, gemini, pendingEvents, tasks, arrived,
                   shown, rendered, calls, calendar>>

\* await sleep(delay); continue
generateContent_Slept ==
    /\ Generating("sleep")
    /\ output' = [output EXCEPT !.pc = "loop", !.attempt = @ + 1]
    /\ UNCHANGED <<input, ALLOWED_USER_ID, now, gemini, pendingEvents, tasks, arrived,
                   shown, rendered, calls, calendar>>

NextGenerate ==
    \/ generateContent_Loop
    \/ \E o \in ModelOutcomes : generateContent_Settled(o)
    \/ generateContent_Slept

SpecGenerate == InitGenerate /\ [][NextGenerate]_vars

\* ------------------------------------------------- the event loop, fairly
\* Node runs every continuation whose awaited call has settled, and every
\* collaborator call settles: the steps of the handlers in flight are weakly
\* fair.  The arrival of inbound events is not.
HandlerSteps ==
    \/ \E r \in Running, o \in Outcomes : Message_PrivateSent(r, o)
    \/ \E r \in Running, o \in Outcomes : handleAddEvent_Typing(r, o)
    \/ \E r \in Running, raw \in gemini : handleAddEvent_Parsed(r, raw)
    \/ \E r \in Running, o \in Outcomes : handleAddEvent_Shown(r, o)
    \/ \E r \in Running, o \in Outcomes : handleAddEvent_Clarified(r, o)
    \/ \E r \in Running, o \in Outcomes : Message_SorrySent(r, o)
    \/ \E r \in Running, o \in Outcomes : handleEventConfirm_Expired(r, o)
    \/ \E r \in Running, o \in Outcomes : handleEventConfirm_Typing(r, o)
    \/ \E r \in Running, o \in Outcomes : createCalendarEvent_Auth(r, o)
    \/ \E r \in Running, o \in Outcomes : createCalendarEvent_Insert(r, o)
    \/ \E r \in Running, o \in Outcomes : handleEventConfirm_Created(r, o)
    \/ \E r \in Running, o \in Outcomes : handleEventConfirm_Edited(r, o)
    \/ \E r \in Running, o \in Outcomes : handleEventConfirm_Failed(r, o)
    \/ \E r \in Running, o \in Outcomes : handleEventCancel_Edited(r, o)
    \/ \E r \in Running, o \in Outcomes : handleEventCancel_Cancelled(r, o)
    \/ \E r \in Running, o \in Outcomes : CallbackQuery_Answered(r, o)

NextLoop ==
    \/ \E u \in Users : Message_AddEvent(u)
    \/ \E u \in Users : Message_Unauthorized(u)
    \/ \E u \in Users, data \in Signals : CallbackQuery(u, data)
    \/ HandlerSteps

SpecLoop == InitBot /\ [][NextLoop]_vars /\ WF_vars(HandlerSteps)

\* ------------------------------------- a free-text message, up to the AI
\* The texts of the classifier and the expressions of the shortcut table, as
\* msg.text of a message of an authorised user.
InitRoute ==
    /\ ALLOWED_USER_ID = 0
    /\ now = [day |-> 10, min |-> 540, utc |-> 0]
    /\ gemini = {}
    /\ pendingEvents = <<>>
    /\ tasks = EmptyBag
    /\ arrived = 0
    /\ shown = <<>>
    /\ rendered = {}
    /\ calls = <<>>
    /\ calendar = <<>>
    /\ input \in
         ({[text |-> t.text, keyword |-> t.keyword, phrase |-> "", timezone |-> z, ai |-> ai] :
              t \in {x \in Texts : x.text # <<>>}, z \in ZoneHours, ai \in {RangeDays, AIFail}}
          \cup {[text |-> e.expression, keyword |-> 0, phrase |-> e.phrase,
                 timezone |-> z, ai |-> ai] :
              e \in Expressions, z \in ZoneHours, ai \in {RangeDays, AIFail}})
    /\ output = NoOutput

\* bot.on('message'): isQueryIntent(msg.text) ? handleEventQueryNatural(msg,
\* msg.text), which calls parseTimeRange(msg.text, TIMEZONE) : handleAddEvent
Message_Routed ==
    /\ output = NoOutput
    /\ output' = IF isQueryIntent(input.text)
                   THEN [handler |-> "handleEventQueryNatural",
                         range |-> parseTimeRange(input.text, input.timezone, now, input.ai)]
                   ELSE [handler |-> "handleAddEvent", range |-> NoRange]
    /\ UNCHANGED <<input, ALLOWED_USER_ID, now, gemini, pendingEvents, tasks, arrived,
                   shown, rendered, calls, calendar>>

NextRoute == Message_Routed

SpecRoute == InitRoute /\ [][NextRoute]_vars

\* --------------------------------- the listeners one text message reaches
\* bot.onText(/\/start/ ...), in the order of registration: the pattern of each
\* command listener, a plain search anywhere in the text
onText ==
    <<[regexp |-> <<"/", "s", "t", "a", "r", "t">>, handler |-> "/start"],
      [regexp |-> <<"/", "h", "e", "l", "p">>, handler |-> "/help"],
      [regexp |-> <<"/", "t", "o", "d", "a", "y">>, handler |-> "/today"],
      [regexp |-> <<"/", "t", "o", "m", "o", "r", "r", "o", "w">>, handler |-> "/tomorrow"],
      [regexp |-> <<"/", "w", "e", "e", "k">>, handler |-> "/week"]>>

\* msg.text?.startsWith('/')
startsWith(text, search) ==
    Len(text) >= Len(search) /\ SubSeq(text, 1, Len(search)) = search

\* the command listeners that run for a text of an authorised user:
\* regexp.exec(msg.text) finds the unanchored literal pattern anywhere
CommandFlows(text) ==
    {onText[i].handler : i \in {j \in DOMAIN onText : includes(text, onText[j].regexp)}}

\* bot.on('message') for an authorised user: nothing for a text that starts
\* with '/' or is empty, else the query flow or the add-event flow
MessageFlows(text) ==
    IF startsWith(text, <<"/">>) \/ text = <<>>
    THEN {}
    ELSE IF isQueryIntent(text) THEN {"handleEventQueryNatural"} ELSE {"handleAddEvent"}

\* the texts: a command word or none, preceded by nothing or a word, followed
\* by nothing, a few words, another command word or one more letter
InitDispatch ==
    /\ ALLOWED_USER_ID = 1
    /\ now = [day |-> 10, min |-> 540, utc |-> 0]
    /\ gemini = {}
    /\ pendingEvents = <<>>
    /\ tasks = EmptyBag
    /\ arrived = 0
    /\ shown = <<>>
    /\ rendered = {}
    /\ calls = <<>>
    /\ calendar = <<>>
    /\ input \in {[text |-> b \o c \o a, before |-> b, command |-> c, after |-> a] :
                    b \in {<<>>, <<"L", "u", "n", "c", "h", " ">>, <<"s", "h", "o", "w", " ">>},
                    c \in {<<>>} \cup {onText[i].regexp : i \in DOMAIN onText},
                    a \in {<<>>, <<" ", "a", "t", " ", "n", "o", "o", "n">>,
                           <<" ", "/", "w", "e", "e", "k">>, <<"s">>}}
    /\ output = NoOutput

\* one text message of the authorised user reaches every command listener whose
\* pattern it matches, and the message listener
Message_Dispatched ==
    /\ output = NoOutput
    /\ isAuthorized(ALLOWED_USER_ID)
    /\ output' = [flows |-> CommandFlows(input.text) \cup MessageFlows(input.text)]
    /\ UNCHANGED <<input, ALLOWED_USER_ID, now, gemini, pendingEvents, tasks, arrived,
                   shown, rendered, calls, calendar>>

NextDispatch == Message_Dispatched

SpecDispatch == InitDispatch /\ [][NextDispatch]_vars

\* ------------------------------------------------------- authorize on its own
\* What token.json and GOOGLE_TOKEN_JSON can hold: nothing, text that is not
\* JSON, the JSON text null, or a token that isTokenExpiring() reports as
\* expiring or not.
NoToken == [source |-> "none", expiring |-> FALSE]

\* JSON.parse of a token text that is JSON
JSONparse(text, source) ==
    IF text = "null" THEN NoToken ELSE [source |-> source, expiring |-> text = "expiring"]

\* loadToken: token.json when it can be read and parsed, else
\* GOOGLE_TOKEN_JSON when it is set and can be parsed, else null
loadToken(file, env) ==
    IF file \notin {"missing", "garbage"} THEN JSONparse(file, "file")
    ELSE IF env # "unset" /\ env # "garbage" THEN JSONparse(env, "env")
    ELSE NoToken

\* input = [production, credentials, file, env]: IS_PRODUCTION, whether
\* GOOGLE_CLIENT_ID and GOOGLE_CLIENT_SECRET are both set, token.json and
\* GOOGLE_TOKEN_JSON.  output = [pc, token, refresh, prompted, file, result].
InitAuthorize ==
    /\ ALLOWED_USER_ID = 0
    /\ now = [day |-> 10, min |-> 540, utc |-> 0]
    /\ gemini = {}
    /\ pendingEvents = <<>>
    /\ tasks = EmptyBag
    /\ arrived = 0
    /\ shown = <<>>
    /\ rendered = {}
    /\ calls = <<>>
    /\ calendar = <<>>
    /\ input \in [production : BOOLEAN, credentials : BOOLEAN,
                  file : {"missing", "garbage", "null", "fresh", "expiring"},
                  env : {"unset", "garbage", "null", "fresh", "expiring"}]
    /\ output = [pc |-> "createOAuth2Client", token |-> NoToken, refresh |-> "none",
                 prompted |-> FALSE, file |-> input.file, result |-> NoOutput]

Authorizing(pc) == "pc" \in DOMAIN output /\ output.pc = pc

\* createOAuth2Client(): getCredentials throws without client id or secret
authorize_Created ==
    /\ Authorizing("createOAuth2Client")
    /\ output' = IF input.credentials
                   THEN [output EXCEPT !.pc = "loadToken"]
                   ELSE [output EXCEPT !.pc = "done",
                            !.result = Throw("Google OAuth credentials not found")]
    /\ UNCHANGED <<input, ALLOWED_USER_ID, now, gemini, pendingEvents, tasks, arrived,
                   shown, rendered, calls, calendar>>

\* const token = await loadToken(); if (token) { setCredentials; if
\* (isTokenExpiring()) refresh, else return the client } else getNewToken
authorize_Loaded ==
    /\ Authorizing("loadToken")
    /\ LET token == loadToken(output.file, input.env)
       IN output' =
            IF token = NoToken THEN [output EXCEPT !.pc = "getNewToken"]
            ELSE IF token.expiring THEN [output EXCEPT !.pc = "refreshAccessToken", !.token = token]
            ELSE [output EXCEPT !.pc = "done", !.token = token, !.result = [client |-> token]]
    /\ UNCHANGED <<input, ALLOWED_USER_ID, now, gemini, pendingEvents, tasks, arrived,
                   shown, rendered, calls, calendar>>

\* await oAuth2Client.refreshAccessToken() settled: the new credentials are
\* set and saved (saveToken swallows a failed write), or the catch block
\* calls getNewToken
authorize_Refreshed(o, written) ==
    /\ Authorizing("refreshAccessToken")
    /\ output' =
         IF o = "ok"
           THEN [output EXCEPT !.pc = "done", !.refresh = "ok",
                    !.file = IF written = "ok" THEN "fresh" ELSE @,
                    !.result = [client |-> [source |-> output.token.source, expiring |-> FALSE]]]
           ELSE [output EXCEPT !.pc = "getNewToken", !.refresh = "fail"]
    /\ UNCHANGED <<input, ALLOWED_USER_ID, now, gemini, pendingEvents, tasks, arrived,
                   shown, rendered, calls, calendar>>

\* getNewToken: throws in production, else prints the URL and asks for the code
getNewToken_StartedPrompts ==
    /\ Authorizing("getNewToken")
    /\ output' = [output EXCEPT !.pc = "question", !.prompted = TRUE]
    /\ UNCHANGED <<input, ALLOWED_USER_ID, now, gemini, pendingEvents, tasks, arrived,
                   shown, rendered, calls, calendar>>
getNewToken_Started ==
    /\ Authorizing("getNewToken")
    /\ output' = IF input.production
                   THEN [output EXCEPT !.pc = "done", !.result = Throw("GOOGLE TOKEN EXPIRED")]
                   ELSE [output EXCEPT !.pc = "question", !.prompted = TRUE]
    /\ UNCHANGED <<input, ALLOWED_USER_ID, now, gemini, pendingEvents, tasks, arrived,
                   shown, rendered, calls, calendar>>

\* the code was entered and oAuth2Client.getToken(code) settled
getNewToken_Answered(o, written) ==
    /\ Authorizing("question")
    /\ output' =
         IF o = "ok"
           THEN [output EXCEPT !.pc = "done",
                    !.file = IF written = "ok" THEN "fresh" ELSE @,
                    !.result = [client |-> [source |-> "prompt", expiring |-> FALSE]]]
           ELSE [output EXCEPT !.pc = "done",
                    !.result = Throw("Error retrieving access token")]
    /\ UNCHANGED <<input, ALLOWED_USER_ID, now, gemini, pendingEvents, tasks, arrived,
                   shown, rendered, calls, calendar>>

NextAuthorize ==
    \/ authorize_Created
    \/ authorize_Loaded
    \/ \E o \in Outcomes, written \in Outcomes : authorize_Refreshed(o, written)
    \/ getNewToken_Started
    \/ \E o \in Outcomes, written \in Outcomes : getNewToken_Answered(o, written)

SpecAuthorize == InitAuthorize /\ [][NextAuthorize]_vars

\* ---------------------------------------------- groupEventsByDate on its own
\* An event as queryCalendarEvents returns it.  start is the text of
\* event.start.dateTime, "yyyy-MM-ddTHH:mm:ss+hh:00" read as [date, min,
\* offset] (wall-clock day and minute in a zone `offset` hours ahead of UTC),
\* or the text of event.start.date, "yyyy-MM-dd", read as [date, 0, 0].
TimedEvent(id, date, min) ==
    [id |-> id, isAllDay |-> FALSE, start |-> [date |-> date, min |-> min, offset |-> ZoneOffset]]
AllDayEvent(id, date) ==
    [id |-> id, isAllDay |-> TRUE, start |-> [date |-> date, min |-> 0, offset |-> 0]]
EventPool ==
    {AllDayEvent(1, 10), TimedEvent(2, 10, 480), TimedEvent(3, 10, 480),
     TimedEvent(4, 10, 660), AllDayEvent(5, 11), TimedEvent(6, 11, 480)}

\* the moment an event starts, in seconds of UTC: an all-day event starts at
\* 00:00 of its date in the calendar's zone
StartOf(event) ==
    IF event.isAllDay
    THEN event.start.date * 86400 - ZoneOffset * 3600
    ELSE event.start.date * 86400 + event.start.min * 60 - event.start.offset * 3600

\* orderBy: 'startTime' of events.list: the events of a set, by start
RECURSIVE Listed(_)
Listed(S) ==
    IF S = {} THEN <<>>
    ELSE LET first == CHOOSE e \in S :
                 \A x \in S : StartOf(e) < StartOf(x)
                               \/ (StartOf(e) = StartOf(x) /\ e.id <= x.id)
         IN <<first>> \o Listed(S \ {first})

\* parseISO(dateTime), and new Date(start): the instant, in seconds of UTC; a
\* date without time is taken as 00:00 UTC
parseISO(start) == start.date * 86400 + start.min * 60 - start.offset * 3600

\* dateTime.split('T')[0], or format(parseISO(dateTime), 'yyyy-MM-dd'): the day
\* of the instant in the process's zone
dateKey(event, clock) ==
    IF event.isAllDay THEN event.start.date
    ELSE (parseISO(event.start) + clock.utc * 3600) \div 86400

\* Array.prototype.sort((a, b) => new Date(a.start) - new Date(b.start)),
\* which is stable
RECURSIVE sort(_)
sort(events) ==
    IF events = <<>> THEN <<>>
    ELSE LET i == CHOOSE k \in 1..Len(events) :
                 \A j \in 1..Len(events) :
                     \/ parseISO(events[k].start) < parseISO(events[j].start)
                     \/ (parseISO(events[k].start) = parseISO(events[j].start) /\ k <= j)
         IN <<events[i]>> \o sort(SubSeq(events, 1, i - 1) \o SubSeq(events, i + 1, Len(events)))

groupEventsByDate(events, clock) ==
    LET keys == {dateKey(events[i], clock) : i \in 1..Len(events)}
        pushed(k) == SelectSeq(events, LAMBDA e : dateKey(e, clock) = k)
    IN [k \in keys |-> sort(pushed(k))]

\* The lists of up to MaxEvents events, in the order events.list returns them,
\* with the process in the calendar's zone and in UTC.
InitGroup ==
    /\ ALLOWED_USER_ID = 0
    /\ \E utc \in {0, ZoneOffset} : now = [day |-> 10, min |-> 540, utc |-> utc]
    /\ gemini = {}
    /\ pendingEvents = <<>>
    /\ tasks = EmptyBag
    /\ arrived = 0
    /\ shown = <<>>
    /\ rendered = {}
    /\ calls = <<>>
    /\ calendar = <<>>
    /\ input \in {[events |-> Listed(S)] :
                    S \in {T \in SUBSET EventPool : Cardinality(T) <= MaxEvents}}
    /\ output = NoOutput

groupEventsByDate_Call ==
    /\ output = NoOutput
    /\ output' = [grouped |-> groupEventsByDate(input.events, now)]
    /\ UNCHANGED <<input, ALLOWED_USER_ID, now, gemini, pendingEvents, tasks, arrived,
                   shown, rendered, calls, calendar>>

NextGroup == groupEventsByDate_Call

SpecGroup == InitGroup /\ [][NextGroup]_vars

\* =================================================================== claims
\* Helpers for the properties: the tasks whose record changed in a step, i.e.
\* the handler activation that arrived or ran in it.
Changed == {x \in BagToSet(tasks) \cup BagToSet(tasks') :
              CopiesIn(x, tasks) # CopiesIn(x, tasks')}
\* task r runs a segment in this step and is r2 afterwards
Moves(r, r2) == r \in Running /\ tasks' = (tasks (-) SetToBag({r})) (+) SetToBag({r2})
\* task r ends (returns or rejects) in this step
Leaves(r) == r \in Running /\ tasks' = tasks (-) SetToBag({r})
\* the draft of message m is the one the store holds for user u
Holds(store, u, m) == u \in DOMAIN store /\ store[u].messageId = m
CallbackSignals == {"confirm_", "cancel_"}

\* C1: for one stored draft (one confirmation message) createCalendarEvent is
\* invoked at most once, whatever approve signals arrive.
C1_AtMostOnceCommit ==
    \A i, j \in DOMAIN calls :
        calls[i].messageId = calls[j].messageId => i = j

\* C2: a draft is never both written to the calendar and acknowledged to the
\* user as cancelled.
C2_CommittedXorCancelled ==
    ~ \E e \in {calendar[i] : i \in DOMAIN calendar}, msg \in rendered :
        /\ msg.text = "cancelled"
        /\ msg.hadEntry
        /\ msg.messageId = e.messageId

\* C3: while createCalendarEvent is in flight for a draft of user u, the store
\* holds no entry of u for that draft (the entry was removed first).
C3_RemovedBeforeWrite ==
    \A r \in Running :
        (r.handler = "handleEventConfirm" /\ r.pc \in {"auth", "insert"})
            => ~Holds(pendingEvents, r.user, r.pending.messageId)

\* C4: createCalendarEvent is invoked only by the handler of an approve signal
\* whose user had an entry when the handler read the store, and with the draft
\* that was shown to and stored for that same user; every calendar insert
\* comes from such an invocation.
C4_WriteOnlyOnApprove ==
    /\ \A i \in DOMAIN calls :
         LET c == calls[i]
         IN /\ c.signal = "confirm_"
            /\ c.hadEntry
            /\ c.messageId \in DOMAIN shown
            /\ shown[c.messageId].user = c.user
            /\ shown[c.messageId].eventDetails = c.eventDetails
    /\ \A i \in DOMAIN calendar :
         \E j \in DOMAIN calls :
            /\ calls[j].user = calendar[i].user
            /\ calls[j].messageId = calendar[i].messageId
            /\ calendar[i].resource = CalendarResource(calls[j].eventDetails, TIMEZONE)

\* an event was written in a behaviour in which a command was handled as well
C4_Witness ==
    /\ calendar # <<>>
    /\ \E msg \in rendered : msg.signal = "command"

\* handleEventConfirm returns (its failure message was rendered) in this step
ConfirmReturnsFailed(r) ==
    /\ r.handler = "handleEventConfirm"
    /\ r.pc = "failedSend"
    /\ Moves(r, [r EXCEPT !.pc = "answer"])
\* handleEventConfirm returns or rejects in this step
ConfirmFinishes(r) ==
    /\ r.handler = "handleEventConfirm"
    /\ \/ r.pc = "edit" /\ Moves(r, [r EXCEPT !.pc = "answer"])
       \/ r.pc = "failedSend" /\ (Moves(r, [r EXCEPT !.pc = "answer"]) \/ Leaves(r))
\* handleEventCancel returns or rejects in this step
CancelFinishes(r) ==
    /\ r.handler = "handleEventCancel"
    /\ \/ r.pc = "edit" /\ Leaves(r)
       \/ r.pc = "cancelledSend" /\ (Moves(r, [r EXCEPT !.pc = "answer"]) \/ Leaves(r))

\* C5: when createCalendarEvent failed, then once the approve handler has
\* rendered the failure message and returned, the store holds no entry for
\* that user.
C5_DraftDiscardedOnFailure ==
    [][\A r \in Running :
          (/\ ConfirmReturnsFailed(r)
           /\ r.error = "Failed to create calendar event")
          => r.user \notin DOMAIN pendingEvents']_vars

\* C6: when the calendar write of an approve handler succeeded, the handler
\* called createCalendarEvent with exactly the stored draft and the configured
\* timezone, and once it finishes the store holds no entry for that user.
C6_CommitOnSuccess ==
    [][\A r \in Running :
          (ConfirmFinishes(r) /\ r.event # NoEvent)
          => /\ \E i \in DOMAIN calls :
                   /\ calls[i].user = r.user
                   /\ calls[i].messageId = r.pending.messageId
                   /\ calls[i].eventDetails = shown[r.pending.messageId].eventDetails
                   /\ calls[i].timezone = TIMEZONE
             /\ r.event = CalendarResource(shown[r.pending.messageId].eventDetails, TIMEZONE)
             /\ r.user \notin DOMAIN pendingEvents']_vars

\* C7: every step of the handler of an approve or reject signal whose user had
\* no entry leaves the store, the invocations of createCalendarEvent and the
\* calendar unchanged.
C7_NoEntryIsNoOp ==
    [][\A x \in Changed :
          (x.signal \in CallbackSignals /\ ~x.hadEntry)
          => /\ pendingEvents' = pendingEvents
             /\ calls' = calls
             /\ calendar' = calendar]_vars

\* a replayed signal: the user's draft was committed, then a signal of the
\* same user found no entry and was answered
C7_Witness ==
    \E msg \in rendered :
        /\ msg.signal \in CallbackSignals
        /\ ~msg.hadEntry
        /\ \E i \in DOMAIN calendar : calendar[i].user = msg.user

\* C8: the only message rendered by the handler of an approve or reject signal
\* whose user had no entry is the confirmation-expired message.
C8_OnlyExpiredWithoutEntry ==
    \A msg \in rendered :
        (msg.signal \in CallbackSignals /\ ~msg.hadEntry) => msg.text = "expired"

\* C9: when the handler of a reject signal whose user had an entry finishes,
\* the store holds no entry for that user, and no step of it writes to the
\* calendar.
C9_RejectRemovesEntry ==
    [][\A r \in Running :
          (r.hadEntry /\ CancelFinishes(r))
          => /\ r.user \notin DOMAIN pendingEvents'
             /\ calls' = calls
             /\ calendar' = calendar]_vars

\* C10: a step taken for one user leaves every other user's entry unchanged,
\* and whatever it hands to createCalendarEvent or inserts into the calendar
\* is a draft that was shown to and stored for the acting user.
ActingUsers == {x.user : x \in Changed}
C10_UsersDoNotInterfere ==
    [][/\ \A v \in Users \ ActingUsers :
             MapGet(pendingEvents', v) = MapGet(pendingEvents, v)
       /\ calls' # calls =>
             LET c == calls'[Len(calls')]
             IN c.user \in ActingUsers /\ shown[c.messageId].user = c.user
       /\ calendar' # calendar =>
             LET e == calendar'[Len(calendar')]
             IN e.user \in ActingUsers /\ shown[e.messageId].user = e.user]_vars

\* user 1's draft was written to the calendar while user 2's entry is pending
C10_Witness ==
    /\ \E i \in DOMAIN calendar : calendar[i].user = 1
    /\ 2 \in DOMAIN pendingEvents
    /\ 1 \notin DOMAIN pendingEvents

\* the confirmation messages sent to user u, by message id
ShownTo(u) == {i \in DOMAIN shown : shown[i].user = u}
Latest(S) == CHOOSE i \in S : \A j \in S : j <= i

\* C11: the store holds at most one entry per user, and after draft A and
\* then draft B were stored for a user, what the store holds for that user (if
\* anything) is B: the draft of the confirmation message sent to the user last.
C11_OverwriteLaw ==
    /\ DOMAIN pendingEvents \subseteq Users
    /\ \A u \in DOMAIN pendingEvents :
         /\ ShownTo(u) # {}
         /\ pendingEvents[u].messageId = Latest(ShownTo(u))
         /\ pendingEvents[u].eventDetails = shown[Latest(ShownTo(u))].eventDetails

\* two different drafts were stored for user 1, neither was resolved, and the
\* store holds the second
C11_Witness ==
    /\ Len(shown) = 2
    /\ shown[1].user = 1 /\ shown[2].user = 1
    /\ shown[1].eventDetails # shown[2].eventDetails
    /\ arrived = 2
    /\ MapGet(pendingEvents, 1) # NoEntry
    /\ pendingEvents[1].eventDetails = shown[2].eventDetails

\* the handlers of approve / reject signals in flight that obtained an entry
Obtained == {r \in Running : r.signal \in CallbackSignals /\ r.hadEntry}

\* C12: of the resolution handlers in flight at the same time, at most one
\* has obtained a given stored entry; a handler started right after another
\* one observes the entry as absent.
C12_TakeIdempotent ==
    \A r \in Obtained :
        /\ CopiesIn(r, tasks) = 1
        /\ \A r2 \in Obtained \ {r} :
              ~(r2.user = r.user /\ r2.pending.messageId = r.pending.messageId)

\* the task that runs a segment (or ends) in this step
Acting == {x \in Running : CopiesIn(x, tasks') < CopiesIn(x, tasks)}

\* an add-event task whose attempt failed: it is in the catch block of
\* handleAddEvent or in that of the message handler
FailedAttempt(r) ==
    r.handler = "handleAddEvent" /\ r.pc \in {"clarifySend", "sorrySend"}
\* the attempt of task r fails in this step
AttemptFails(r) ==
    /\ r.handler = "handleAddEvent"
    /\ r.pc \in {"typing", "parse", "confirmSend"}
    /\ \E r2 \in BagToSet(tasks') : r2.pc = "clarifySend" /\ Moves(r, r2)

After(e, s) == e[1] > s[1] \/ (e[1] = s[1] /\ e[2] > s[2])

\* C14: every draft held in the store has endTime strictly after startTime.
C14_StoredEndAfterStart ==
    \A u \in DOMAIN pendingEvents :
        LET d == pendingEvents[u].eventDetails
        IN After(d.endTime, d.startTime)

\* C15: every draft held in the store is one for which validateEventData
\* returns an empty list of problems.
C15_StoredDraftValid ==
    \A u \in DOMAIN pendingEvents :
        validateEventData(pendingEvents[u].eventDetails, now) = <<>>

\* the draft's start (date + 'T' + startTime) is an instant earlier than the clock
StartsBefore(raw, clock) ==
    /\ raw.startTime[1] <= 23 /\ raw.startTime[2] <= 59
    /\ raw.date * 1440 + raw.startTime[1] * 60 + raw.startTime[2]
          < clock.day * 1440 + clock.min
Returned == output # NoOutput /\ "error" \notin DOMAIN output

Resolved == output # NoOutput /\ "generateJSON" \in DOMAIN output
RangeReturned == Resolved /\ "error" \notin DOMAIN output.value
\* the instant a "yyyy-MM-ddTHH:mm:ss" text denotes, in seconds
InstantOf(dt) == dt.date * 86400 + dt.time[1] * 3600 + dt.time[2] * 60 + dt.sec

\* C17: for every phrase of the shortcut table, in any letter case and with
\* surrounding whitespace, parseTimeRange returns a range with confidence high
\* and generateJSON is not called, whatever the AI would have answered.
C17_ShortcutSkipsAI ==
    (Resolved /\ input.phrase \in Phrases) =>
        /\ output.generateJSON = 0
        /\ "error" \notin DOMAIN output.value
        /\ output.value.confidence = "high"
        /\ output.value.description = Spell[IF input.phrase = "week" THEN "this week"
                                                                     ELSE input.phrase]

\* 'next week' with surrounding whitespace resolved on the shortcut path although the
\* AI would have returned a range with confidence low
C17_Witness ==
    /\ Resolved
    /\ input.phrase = "next week"
    /\ Head(input.expression) \in WhiteSpace
    /\ input.ai = RangeDays
    /\ output.generateJSON = 0
    /\ output.value.confidence = "high"

\* C18: every range parseTimeRange returns, on the shortcut path and on the AI
\* path, starts no later than it ends.
C18_StartNotAfterEnd ==
    RangeReturned => InstantOf(output.value.startDate) <= InstantOf(output.value.endDate)

\* C19: on the AI path parseTimeRange throws whenever the result of
\* generateJSON lacks startDate or endDate (or generateJSON failed), and otherwise
\* returns startDate 'T' startTime and endDate 'T' endTime, with 00:00 for an
\* absent startTime and 23:59 for an absent endTime.
C19_AIPathComposition ==
    (Resolved /\ output.generateJSON = 1) =>
        LET ai == input.ai
        IN IF "error" \in DOMAIN ai \/ ai.startDate = NoDate \/ ai.endDate = NoDate
             THEN "error" \in DOMAIN output.value
             ELSE /\ "error" \notin DOMAIN output.value
                  /\ output.value.startDate.date = ai.startDate
                  /\ output.value.startDate.time =
                        (IF ai.startTime = NoTime THEN <<0, 0>> ELSE ai.startTime)
                  /\ output.value.endDate.date = ai.endDate
                  /\ output.value.endDate.time =
                        (IF ai.endTime = NoTime THEN <<23, 59>> ELSE ai.endTime)

\* a result with both dates and no times came back as 00:00 through 23:59
C19_Witness ==
    /\ Resolved
    /\ output.generateJSON = 1
    /\ input.ai = RangeDays
    /\ "error" \notin DOMAIN output.value
    /\ output.value.startDate.time = <<0, 0>>
    /\ output.value.endDate.time = <<23, 59>>

\* C20: for every day of the week of now (the wall clock of TIMEZONE), 'this
\* weekend' resolves to 00:00:00 of the next Saturday (today on a Saturday)
\* through 23:59:59 of the Sunday right after it.
C20_ThisWeekend ==
    (RangeReturned /\ input.phrase = "this weekend") =>
        LET userNow == Instant(now) + input.timezone * 3600
            today == userNow \div 86400
            weekday == (today + 6) % 7        \* 0 = Sunday ... 6 = Saturday
            saturday == today + (6 - weekday)
        IN /\ output.value.startDate = DateTime(saturday, <<0, 0>>, 0)
           /\ output.value.endDate = DateTime(saturday + 1, <<23, 59>>, 59)

\* the Monday on or before a day (day 9 is a Monday)
MondayOnOrBefore(day) == day - ((day + 5) % 7)
WeekResolved == /\ "range" \in DOMAIN output
                /\ output.range # NoOutput
                /\ output.week # NoOutput
                /\ "error" \notin DOMAIN output.range.value

\* C21: on every day of the week, 'this week' / 'week' and the /week command
\* resolve to the same range, from 00:00:00 of the Monday on or before now (in
\* the user's zone) to 23:59:59 of the Sunday six days later, and 'next week'
\* is the Monday-to-Sunday range that starts seven days later.
C21_WeekRanges ==
    WeekResolved =>
        LET userNow == Instant(now) + input.timezone * 3600
            monday == MondayOnOrBefore(userNow \div 86400)
            range == output.range.value
            \* the ISO texts of /week denote UTC; as wall clock of TIMEZONE:
            weekMin == InstantOf(output.week.timeMin) + (now.utc + input.timezone) * 3600
            weekMax == InstantOf(output.week.timeMax) + (now.utc + input.timezone) * 3600
        IN /\ weekMin = monday * 86400
           /\ weekMax = (monday + 6) * 86400 + 86399
           /\ input.phrase \in {"this week", "week"} =>
                 /\ range.startDate = DateTime(monday, <<0, 0>>, 0)
                 /\ range.endDate = DateTime(monday + 6, <<23, 59>>, 59)
           /\ input.phrase = "next week" =>
                 /\ range.startDate = DateTime(monday + 7, <<0, 0>>, 0)
                 /\ range.endDate = DateTime(monday + 13, <<23, 59>>, 59)

\* the rules of a draft, as the validator's contract states them
BrokenRule(d, clock) ==
    \/ d.summary = "" \/ d.summary = " "
    \/ d.date = NoDate \/ d.date < 0
    \/ Len(d.startTime) # 2 \/ Len(d.endTime) # 2
    \/ (Len(d.startTime) = 2 /\ Len(d.endTime) = 2 /\ ~After(d.endTime, d.startTime))
    \/ (d.date > 0 /\ clock.day - d.date > 1)

\* C22: validateEventData returns a list of problems (it does not throw), and
\* the list is non-empty exactly when the draft breaks a rule: blank summary,
\* date absent or not YYYY-MM-DD, a time absent or not HH:MM, endTime not
\* strictly after startTime (also for out-of-range digits), or a date more
\* than 1 day in the past.
C22_ProblemsIffRuleBroken ==
    (output # NoOutput /\ "errors" \in DOMAIN output) =>
        ((output.errors # <<>>) <=> BrokenRule(input.eventDetails, now))

Classified == output # NoOutput /\ "handler" \in DOMAIN output

Budget == IF input.options = NoOptions THEN 3 ELSE input.options.maxRetries

\* C24: generateContent never calls the model more often than maxRetries (3
\* when the caller passes none), and when it is done it has returned the
\* generated text or thrown an error.
C24_BoundedRetries ==
    "pc" \in DOMAIN output =>
        /\ output.calls <= Budget
        /\ output.pc = "done" =>
              \/ "text" \in DOMAIN output.result
              \/ "error" \in DOMAIN output.result

\* the pcs at which a task awaits the AI or the calendar
AwaitsAI == {"parse", "range"}
AwaitsCalendar == {"read", "auth", "insert"}

\* C25: with an allowed user configured, a task of any other user never
\* awaits the AI or the calendar and never runs an add or query handler, and
\* no step of such a task (its arrival included) changes the store, the
\* createCalendarEvent calls or the calendar.
C25_OthersCauseNothing ==
    [][ALLOWED_USER_ID # 0 =>
         /\ \A r \in BagToSet(tasks') :
               r.user # ALLOWED_USER_ID =>
                   /\ r.pc \notin AwaitsAI \cup AwaitsCalendar
                   /\ r.handler \in {"message", "callback_query",
                                     "handleEventConfirm", "handleEventCancel"}
                   /\ r.pending = NoEntry
         /\ (\E x \in Changed : x.user # ALLOWED_USER_ID) =>
               UNCHANGED <<pendingEvents, shown, calls, calendar>>
         /\ \A i \in 1..Len(calls') : calls'[i].user = ALLOWED_USER_ID
         /\ \A i \in 1..Len(shown') : shown'[i].user = ALLOWED_USER_ID]_vars
\* while the allowed user's draft is pending, another user wrote a message
\* and pressed the approve button: both were turned away
C25_Witness ==
    /\ ALLOWED_USER_ID # 0
    /\ ALLOWED_USER_ID \in DOMAIN pendingEvents
    /\ \E m \in rendered : /\ m.user # ALLOWED_USER_ID
                           /\ m.signal = "confirm_"
                           /\ m.text = "expired"
    /\ \E m \in rendered : /\ m.user # ALLOWED_USER_ID
                           /\ m.signal = "text"
                           /\ m.text = "private use only"

\* C26: a user's entry changes only in three steps, all of that user: the
\* confirm handler or the cancel handler removes it after its edit call, or
\* an add flow whose confirmation message was just sent replaces it with its
\* draft.  No other step (query, command, failed attempt, another user's
\* event, or time passing) changes or removes it.
C26_EntryStaysUntilResolved ==
    [][\A u \in Users :
          MapGet(pendingEvents', u) # MapGet(pendingEvents, u) =>
              \E r \in Acting :
                  /\ r.user = u
                  /\ \/ /\ r.handler \in {"handleEventConfirm", "handleEventCancel"}
                        /\ r.pc = "edit"
                        /\ u \notin DOMAIN pendingEvents'
                     \/ /\ r.handler = "handleAddEvent"
                        /\ r.pc = "confirmSend"
                        /\ u \in DOMAIN pendingEvents'
                        /\ pendingEvents'[u].eventDetails = r.eventDetails
                        /\ Len(shown') = Len(shown) + 1]_vars
\* the entry is still there after a query was answered, another user pressed
\* the reject button and nothing is in flight
C26_Witness ==
    /\ tasks = EmptyBag
    /\ arrived = MaxTasks
    /\ Len(shown) = 1
    /\ shown[1].user \in DOMAIN pendingEvents
    /\ pendingEvents[shown[1].user].eventDetails = shown[1].eventDetails
    /\ \E m \in rendered : m.user = shown[1].user /\ m.text = "events"
    /\ \E m \in rendered : m.user # shown[1].user /\ m.signal = "cancel_"

\* C27: the only step of an add flow that changes the store is the one in
\* which its confirmation message was sent, and after that step the user's
\* slot holds that flow's draft and that message's id, whether the flow
\* started before or after the flow whose draft the slot held.
C27_LastShownWins ==
    [][\A r \in Acting :
          r.handler = "handleAddEvent" =>
              IF Len(shown') = Len(shown) + 1
                THEN /\ r.pc = "confirmSend"
                     /\ shown'[Len(shown')].eventDetails = r.eventDetails
                     /\ shown'[Len(shown')].user = r.user
                     /\ MapGet(pendingEvents', r.user) =
                           [eventDetails |-> r.eventDetails,
                            messageId |-> Len(shown'),
                            chatId |-> Chat]
                     /\ \A u \in Users \ {r.user} :
                           MapGet(pendingEvents', u) = MapGet(pendingEvents, u)
                ELSE UNCHANGED <<pendingEvents, shown>>]_vars
\* two flows of one user overlapped, the one that started second was shown
\* first, the one that started first was shown last, both have finished, and
\* the store holds the draft of the one shown last
C27_Witness ==
    /\ arrived = 2
    /\ tasks = EmptyBag
    /\ Len(shown) = 2
    /\ shown[1].user = shown[2].user
    /\ shown[1].late /\ ~shown[2].late
    /\ shown[1].eventDetails # shown[2].eventDetails
    /\ MapGet(pendingEvents, shown[2].user) =
          [eventDetails |-> shown[2].eventDetails, messageId |-> 2, chatId |-> Chat]

\* the awaits after which a handler has nothing left to do: where it returns
\* when the awaited call succeeds
LastAwaits(handler) ==
    IF handler = "handleAddEvent" THEN {"confirmSend", "clarifySend", "sorrySend"}
    ELSE IF handler \in {"handleEventQuery", "handleEventQueryNatural"}
      THEN {"listSend", "retrieveFailSend", "sorrySend"}
    ELSE IF handler = "message" THEN {"privateSend"}
    ELSE {"answer"}

\* C28: a handler activation ends only at one of its last awaits.  (At any
\* other await the handler has code left to run, so an activation that ends
\* there was ended by the failure of the awaited call escaping the handler.)
C28_FailuresAreCaught ==
    [][\A r \in Acting : Leaves(r) => r.pc \in LastAwaits(r.handler)]_vars

\* a confirm task whose createCalendarEvent call threw on validation
Refused(r) == /\ r.handler = "handleEventConfirm"
              /\ r.pc = "failedSend"
              /\ r.error = "Invalid event data"
\* no task holding a draft with a validation problem is contacting the
\* calendar, and no such draft was inserted
InvalidNeverSent ==
    /\ \A r \in Running :
          (r.handler = "handleEventConfirm" /\ r.pc \in {"auth", "insert", "createdSend"}) =>
              validateEventData(r.pending.eventDetails, now) = <<>>
    /\ \A i \in 1..Len(calendar) :
          validateEventData(shown[calendar[i].messageId].eventDetails, now) = <<>>

C30_RemovesOnlyCommitted ==
    [][\A r \in Acting :
          (r.handler = "handleEventConfirm" /\ r.pc = "edit" /\ r.user \in DOMAIN pendingEvents) =>
              \/ pendingEvents[r.user].messageId = r.pending.messageId
              \/ MapGet(pendingEvents', r.user) = MapGet(pendingEvents, r.user)]_vars

\* C31: the event a confirm handler has written to the calendar is made from
\* the draft displayed in the confirmation message whose approve button was
\* pressed.
C31_WritesDisplayedDraft ==
    \A r \in Running :
        (r.handler = "handleEventConfirm" /\ r.pc = "createdSend" /\ r.message # 0) =>
            r.event = CalendarResource(shown[r.message].eventDetails, TIMEZONE)

\* C32: once createCalendarEvent has returned the created event, the confirm
\* handler does not go on to send the failure message, whatever the later
\* sends and edits do, and when it returns the user's entry has been removed.
C32_NoFailureAfterWrite ==
    [][\A r \in Acting :
          (r.handler = "handleEventConfirm" /\ r.event # NoEvent) =>
              /\ \A r2 \in BagToSet(tasks') : Moves(r, r2) => r2.pc # "failedSend"
              /\ \A r2 \in BagToSet(tasks') :
                    (Moves(r, r2) /\ r2.pc = "answer") => r.user \notin DOMAIN pendingEvents']_vars

\* a callback query of user u with data d is being handled and
\* answerCallbackQuery has not been called for it
Unanswered(u, d) ==
    \E r \in Running : r.user = u /\ r.signal = d /\ r.pc # "answer"
\* answerCallbackQuery(query.id) has been called for a query of u with data d
Answering(u, d) ==
    \E r \in Running : r.user = u /\ r.signal = d /\ r.pc = "answer"

\* C33: whenever a callback query is being handled, answerCallbackQuery is
\* eventually called for it, whatever its data and whatever the confirm or
\* cancel handler does.
C33_EventuallyAnswered ==
    \A u \in Users, d \in Signals : Unanswered(u, d) ~> Answering(u, d)

\* C34: a text written from a phrase of the shortcut table (any letter case,
\* surrounding whitespace) is not routed to the query handler, and for every
\* text that is, parseTimeRange calls generateJSON: it returns no shortcut.
C34_RoutedQueriesUseAI ==
    Classified =>
        /\ input.phrase # "" => output.handler = "handleAddEvent"
        /\ output.handler = "handleEventQueryNatural" =>
              /\ output.range.generateJSON = 1
              /\ parseQuickShortcuts(input.text, input.timezone, now) = NoRange
\* a question that mentions a shortcut phrase ("... today?") is routed to the
\* query handler and resolved by the AI, and the bare phrase is not a query
C34_Witness ==
    /\ Classified
    /\ \/ /\ input.keyword # 0
          /\ includes(toLowerCase(input.text), Spell["today"])
          /\ output.handler = "handleEventQueryNatural"
          /\ output.range.generateJSON = 1

\* C35: a text message of the authorised user starts at most one flow among
\* the five command handlers, the query flow and the add-event flow.
C35_AtMostOneFlow ==
    (output # NoOutput /\ "flows" \in DOMAIN output) => Cardinality(output.flows) <= 1

\* C36: when a model call settles, generateContent sleeps (and then calls
\* again) exactly when the outcome is a rate-limit error and the attempt is
\* not the last one; otherwise it ends at once, without a further call or
\* wait.  The k-th wait is 2^(k-1) seconds, so the waits strictly increase.
RateLimits == {"429", "rate limit"}
C37_TextOrError ==
    Generating("done") =>
        \/ IsError(output.result)
        \/ "text" \in DOMAIN output.result /\ output.result.text # ""

\* C38: a /today, /tomorrow or /week command never waits for the AI and leaves
\* the pending store alone; it goes from the typing indicator to its one
\* calendar read, and ends with the event list or the 'could not retrieve'
\* message rendered.
C38_CommandReadsOnce ==
    [][\A r \in Acting :
          r.handler = "handleEventQuery" =>
              /\ pendingEvents' = pendingEvents
              /\ \A r2 \in BagToSet(tasks') : Moves(r, r2) => r2.pc \notin AwaitsAI
              /\ r.pc = "typing" => Moves(r, [r EXCEPT !.pc = "read"])
              /\ \A r2 \in BagToSet(tasks') : (Moves(r, r2) /\ r2.pc = "read") => r.pc = "typing"
              /\ Leaves(r) => \/ Message(r, "events") \in rendered'
                              \/ Message(r, "could not retrieve") \in rendered']_vars

\* authorize has ended in production mode
Authorized == Authorizing("done") /\ input.production
IsClient(r) == "client" \in DOMAIN r
\* a saved token can be loaded, and it is not expiring or was refreshed
Usable(token) == token # NoToken /\ (~token.expiring \/ output.refresh = "ok")
\* a token held by token.json is the one loaded, whatever GOOGLE_TOKEN_JSON holds
FileFirst ==
    (input.file \in {"fresh", "expiring"} /\ output.token # NoToken) =>
        output.token.source = "file"

\* C39 as stated: in production mode authorize never prompts; it returns a
\* client exactly when a saved token can be loaded and is not expiring or is
\* refreshed, and fails with an error otherwise; token.json comes first.
C39_ProductionAuthorize ==
    Authorized =>
        /\ ~output.prompted
        /\ IsClient(output.result) <=> Usable(loadToken(input.file, input.env))
        /\ ~IsClient(output.result) => IsError(output.result)
        /\ FileFirst

\* C39 amended: the same, provided the OAuth client id and secret are set;
\* without them authorize fails with an error before loading any token.
C39_ProductionAuthorizeConfigured ==
    Authorized =>
        /\ ~output.prompted
        /\ IsClient(output.result) <=>
              (input.credentials /\ Usable(loadToken(input.file, input.env)))
        /\ ~IsClient(output.result) => IsError(output.result)
        /\ ~input.credentials => output.token = NoToken
        /\ FileFirst
\* production: token.json holds an expiring token, GOOGLE_TOKEN_JSON a fresh
\* one; the token of the file was refreshed and the client returned
C39_Witness ==
    /\ Authorized
    /\ input.file = "expiring"
    /\ input.env = "fresh"
    /\ output.token.source = "file"
    /\ output.refresh = "ok"
    /\ IsClient(output.result)

\* the places <<date group, index>> at which event e appears in the result
Places(e) ==
    {p \in UNION {{<<k, i>> : i \in 1..Len(output.grouped[k])} : k \in DOMAIN output.grouped} :
        output.grouped[p[1]][p[2]] = e}
Grouped == output # NoOutput /\ "grouped" \in DOMAIN output

\* C40: every event passed in appears exactly once in the result, in the
\* group of the date its start is written with, nothing else appears, and
\* within each group the events are in ascending order of start.
C40_PartitionByStartDate ==
    Grouped =>
        /\ \A i \in 1..Len(input.events) :
              /\ Cardinality(Places(input.events[i])) = 1
              /\ \A p \in Places(input.events[i]) : p[1] = input.events[i].start.date
        /\ \A k \in DOMAIN output.grouped :
              /\ \A i \in 1..Len(output.grouped[k]) :
                    \E j \in 1..Len(input.events) : input.events[j] = output.grouped[k][i]
              /\ \A i, j \in 1..Len(output.grouped[k]) :
                    i < j => StartOf(output.grouped[k][i]) <= StartOf(output.grouped[k][j])

====
